---- MODULE Spec2Model ----
(***************************************************************************)
(* Break-and-retest trading pipeline of boringtrade: the Risk Engine       *)
(* (utils/risk_manager.py), the trade ledger and create/close operations   *)
(* of the strategy base class (strategies/base_strategy.py) and the        *)
(* per-symbol state machines of the three strategy variants                *)
(* (strategies/orb_strategy.py, pdh_pdl_strategy.py,                       *)
(* order_block_strategy.py).                                               *)
(*                                                                         *)
(* Numbers.  Prices and money are integers in one fixed-point unit.        *)
(* Candle prices are multiples of 1000 units around 10000000, so that the  *)
(* products of a price with the configured fractions below are exact:      *)
(*   breakout_threshold, retest_threshold, stop_loss_buffer are in units   *)
(*   of 1/10000 (0.0001 = 1, 0.0002 = 2, 0.001 = 10);                      *)
(*   risk_per_trade, max_daily_loss, max_daily_profit are in units of      *)
(*   1/100 (0.01 = 1, 0.03 = 3).                                           *)
(* A comparison  x > e * f  against an equity is written                   *)
(*   x * 100 > e * f;  a comparison  x > p + p * f  against a price is     *)
(*   written  x * 10 > p * 10 + (p / 1000) * f,  which is exact for the    *)
(*   prices used and stays within 32-bit integers.                         *)
(* Floating-point rounding is not modelled.                                *)
(***************************************************************************)
EXTENDS Integers, Sequences, FiniteSets, TLC

\* ------------------------------------------------------------------ bounds
MaxTrades == 3      \* Trade objects created over a run
MaxDay == 2         \* calendar days a run spans
MaxCandles == 2     \* candles a retest record may accumulate
MaxBlocks == 2      \* order-block levels a strategy may hold
MaxEntries == 1     \* Trade objects a strategy's entry check creates over a run
MaxRescanEntries == 2    \* the same, for a strategy that re-scans for order blocks
MaxPartialExits == 2    \* partial exits recorded over a run
MaxMinute == 16     \* latest timestamp (minute of the day) of a candle fed to a builder
MaxEmitted == 3     \* candles a builder returns over a run
MaxMerged == 2      \* one-minute candles merged into one candle of a builder
MaxHistory == 2     \* complete candles delivered to a data feed over a run
MaxLevelCallbacks == 2    \* level callbacks registered with a data feed over a run
MaxConcurrentTrades == 4  \* Trade objects created over a run of concurrent entries

\* --------------------------------------------------------- configuration
risk_per_trade == 1          \* 0.01
max_daily_loss == 3          \* 0.03
max_trades_per_day == 3
position_size == 1           \* config["position_size"], max_contracts of create_trade
breakout_threshold == 1      \* 0.0001
retest_threshold == 2        \* 0.0002
stop_loss_buffer == 10       \* 0.001
take_profit_ratio == 2       \* risk_reward_ratio 2.0
stop_loss_type == "level"
take_profit_type == "risk_reward"
htf_filter_enabled == TRUE
lookback_period == 20                \* candles to look back for order blocks
significant_move_threshold == 50     \* 0.005

\* Values of the "confirmation_candles" setting a strategy may be built with.
ConfirmationCandles == {1, 2}

None == -1                   \* Python None (never a price, a day or an equity)

Symbols == {"SPY"}
Days == 1..MaxDay
Directions == {"LONG", "SHORT"}

\* Price at k steps of 1000 units from 10000000.
P(k) == 10000000 + 1000 * k

\* Equity values an account query may report (0: an unfunded account).
Equities == {0, 1000000}

\* Arguments of direct create_trade / close_trade calls: a long whose risk
\* (10000) equals 1% of the equity 1000000, a short whose risk (11000)
\* exceeds it, and exits that lose or win 10000 or 30000 per unit (1% and 3%
\* of that equity).
TradeRequests ==
    { [direction |-> "LONG",  entry_price |-> P(0), stop_loss |-> P(-10), take_profit |-> P(20)],
      [direction |-> "SHORT", entry_price |-> P(0), stop_loss |-> P(11),  take_profit |-> P(-22)] }
ExitPrices == {P(-30), P(10)}

\* Arguments of direct add_partial_exit calls.
PartialPrices == {P(10)}
PartialQuantities == {1, 2}

\* Arguments of direct calculate_position_size / can_place_trade calls.
SizingPrices == {P(-11), P(-10), P(-5), P(-1), P(0)}
RiskAmounts == {10000, 10001}

\* A candle with high, low and close at h, l and c steps.
Candle(h, l, c) == [high_price |-> P(h), low_price |-> P(l), close_price |-> P(c)]

\* The anchors used below are a high of P(0) and a low of P(-20) (opening
\* range, previous day), a bullish order block with zone P(-4)..P(0) and a
\* bearish one with zone P(-20)..P(-16).
OpeningCandle == Candle(0, -20, -10)
DailyHistories == {<<OpeningCandle>>, <<OpeningCandle, Candle(3, -5, 0)>>}
\* A candle of the history the scan for order blocks reads.
ScanCandle(o, h, l, c) ==
    [open_price |-> P(o), high_price |-> P(h), low_price |-> P(l), close_price |-> P(c)]

\* What get_candles returns to the scan: too few candles; or lookback_period
\* candles in which a down candle with high P(0) and low P(-4) is followed
\* two candles later by a close 0.53 % higher.
ShortHistory == <<ScanCandle(-3, 0, -4, -3)>>
BullishHistory ==
    [k \in 1..lookback_period |->
        IF k = lookback_period - 3 THEN ScanCandle(-1, 0, -4, -3)
        ELSE IF k = lookback_period - 1 THEN ScanCandle(-3, 50, -3, 50)
        ELSE ScanCandle(-3, 0, -4, -3)]
ScanHistories == {ShortHistory, BullishHistory}

\* Execution candles for a strategy that scans: one that retests the zone
\* P(-4)..P(0) and closes above it, one far above and one far below.
RescanCandles == {Candle(1, -1, 1), Candle(40, 3, 3), Candle(-25, -60, -25)}

\* The builder's symbol, the timeframes it is built with (config.py: 1, 5
\* or 15 minutes) and the one-minute candles fed to it: a timestamp up to
\* MaxMinute and one of two shapes.
BuilderSymbol == "SPY"
Timeframes == {5, 15}
Minutes == 0..MaxMinute
SubCandle(timestamp, up) ==
    [symbol |-> BuilderSymbol, timestamp |-> timestamp,
     open_price |-> IF up THEN P(0) ELSE P(1), high_price |-> IF up THEN P(2) ELSE P(1),
     low_price |-> IF up THEN P(0) ELSE P(-1), close_price |-> IF up THEN P(1) ELSE P(0),
     volume |-> 1, timeframe |-> 1, is_complete |-> TRUE]
SubCandles == {SubCandle(timestamp, up) : timestamp \in Minutes, up \in BOOLEAN}

\* Any candle a caller may hand to update: of the builder's symbol or of
\* another, of a smaller, the builder's own (tf) or a larger timeframe,
\* complete or not.
OtherSymbol == "QQQ"
LargerTimeframe == 30
InputTimestamps == {0, 5}
InputCandles(tf) ==
    {[SubCandle(timestamp, TRUE) EXCEPT !.symbol = symbol, !.timeframe = t,
                                        !.is_complete = complete] :
        timestamp \in InputTimestamps,
        symbol \in {BuilderSymbol, OtherSymbol}, t \in {1, tf, LargerTimeframe},
        complete \in BOOLEAN}

\* The candles the broker may hand to DataFeed._on_candle_update: of the key
\* the feed tracks, closing below or above the levels and complete or not,
\* and one each of a symbol and of a timeframe the feed does not track.
HubLevels == {P(0), P(1)}
HubCloses == {P(-1), P(1)}
HubCandle(symbol, tf, close, complete) ==
    [symbol |-> symbol, timestamp |-> 0, open_price |-> close, high_price |-> close,
     low_price |-> close, close_price |-> close, volume |-> 1, timeframe |-> tf,
     is_complete |-> complete]
HubCandles(tf) ==
    {HubCandle(BuilderSymbol, tf, close, complete) :
        close \in HubCloses, complete \in BOOLEAN}
    \cup {HubCandle(OtherSymbol, tf, P(1), TRUE),
          HubCandle(BuilderSymbol, LargerTimeframe, P(1), TRUE)}

\* The callbacks a strategy registers, by the method they are bound to; a
\* level callback is one lambda per add_level call, named by its level.
Callback(name, level) == [name |-> name, level |-> level]
CallbackNames == {"on_candle", "on_orb_candle", "on_level_cross"}

\* The callbacks that raise in one update: none, one of them, all of them.
Faults == {{}, CallbackNames} \cup {{name} : name \in CallbackNames}

\* The execution contexts that may deliver an update.
Threads == {1, 2}

OrderBlockRequests ==
    { [direction |-> "bullish", price |-> P(-2),  zone_high |-> P(0),   zone_low |-> P(-4)],
      [direction |-> "bearish", price |-> P(-18), zone_high |-> P(-16), zone_low |-> P(-20)] }

\* Execution-timeframe candles: a close above the high anchor that also
\* reaches a long's target; lows near the high anchor with a close above it
\* and with a close on it; a low 2.5 x retest_threshold below the high anchor;
\* a candle spanning every stop and target; a high near the low anchor with a
\* close below it; a close below the low anchor that also reaches a short's
\* target.
Candles ==
    { Candle(40, 3, 3), Candle(1, -1, 1), Candle(0, -2, 0), Candle(-5, -5, -5),
      Candle(40, -60, 0), Candle(-19, -21, -21), Candle(-25, -60, -25) }

Abs(x) == IF x < 0 THEN -x ELSE x
Max(a, b) == IF a > b THEN a ELSE b
Min(a, b) == IF a < b THEN a ELSE b

VARIABLES
    today,             \* the calendar day datetime.now().date() reports
    current_equity,    \* RiskManager.current_equity
    max_daily_profit,  \* RiskManager.max_daily_profit (None or a fraction)
    trades,            \* every Trade object created, by identity (index)
    trades_by_date,    \* RiskManager.trades_by_date: day -> list of trades
    active_trades,     \* BaseStrategy.active_trades: symbol -> trade (0: absent)
    completed_trades,  \* BaseStrategy.completed_trades
    orders,            \* number of place_market_order calls the broker received
    variant,           \* the strategy class built: "orb", "pdh", "ob" ("none": no strategy)
    confirmation_candles,  \* the strategy's confirmation_candles setting
    opening_ranges,    \* ORBStrategy.opening_ranges
    previous_day_levels,   \* PDHPDLStrategy.previous_day_levels
    order_blocks,      \* OrderBlockStrategy.order_blocks: symbol -> list of levels
    level_objects,     \* the Level objects an ORB / PDH strategy built, by
                       \* identity: symbol -> list of levels
    breakouts,         \* ORBStrategy / PDHPDLStrategy .breakouts
    retests,           \* .retests: symbol -> side -> record (orb, pdh),
                       \*           symbol -> level price -> record (ob)
    timeframe,         \* CandleBuilder.timeframe, in minutes
    current_candle,    \* CandleBuilder.current_candle
    emitted,           \* the timestamps of the candles update returned, in order
    constituents,      \* the inputs fed to the builder since an input last opened
                       \* a bucket, all of that bucket
    candle_history,    \* DataFeed.candle_history of the key (BuilderSymbol, timeframe)
    candle_callbacks,  \* DataFeed.candle_callbacks of that key
    level_callbacks,   \* DataFeed.level_callbacks[BuilderSymbol]
    price_levels,      \* DataFeed.price_levels[BuilderSymbol]
    is_running,        \* BaseStrategy.is_running
    pc,                \* thread -> the statement of the handler it is at
    local,             \* thread -> the locals of the handler it runs
    ret                \* what the last operation returned to its caller

buildervars == <<timeframe, current_candle, emitted, constituents>>

hubvars == <<candle_history, candle_callbacks, level_callbacks, price_levels, is_running,
             pc, local>>

stratvars == <<variant, confirmation_candles, opening_ranges, previous_day_levels,
               order_blocks, level_objects, breakouts, retests, buildervars, hubvars>>

vars == <<today, current_equity, max_daily_profit, trades, trades_by_date,
          active_trades, completed_trades, orders, stratvars, ret>>

\* The part of the state a handler rewrites, as one record.
Cur == [trades |-> trades, trades_by_date |-> trades_by_date,
        active_trades |-> active_trades, completed_trades |-> completed_trades,
        orders |-> orders]

Commit(s) ==
    /\ trades' = s.trades
    /\ trades_by_date' = s.trades_by_date
    /\ active_trades' = s.active_trades
    /\ completed_trades' = s.completed_trades
    /\ orders' = s.orders

\* ------------------------------------------------------------ Trade model
Trade(symbol, direction, entry_price, stop_loss, take_profit, quantity, entry_time) ==
    [symbol |-> symbol, direction |-> direction, entry_price |-> entry_price,
     stop_loss |-> stop_loss, take_profit |-> take_profit, quantity |-> quantity,
     entry_time |-> entry_time, exit_price |-> None, exit_time |-> None,
     status |-> "PENDING", result |-> "UNKNOWN", partial_exits |-> <<>>]

is_closed(t) == t.status = "CLOSED"

\* Trade.add_partial_exit: append the record (time and reason are not read
\* by any computation).
add_partial_exit(t, price, quantity) ==
    [t EXCEPT !.partial_exits = Append(@, [price |-> price, quantity |-> quantity])]

\* Trade.profit_loss: per-unit P&L; defined when entry and exit price are set.
has_profit_loss(t) == t.entry_price # None /\ t.exit_price # None
profit_loss(t) ==
    IF t.direction = "LONG" THEN t.exit_price - t.entry_price
    ELSE t.entry_price - t.exit_price

RECURSIVE partial_quantity(_)
partial_quantity(xs) ==
    IF xs = <<>> THEN 0 ELSE Head(xs).quantity + partial_quantity(Tail(xs))

RECURSIVE partial_pl(_, _)
partial_pl(t, xs) ==
    IF xs = <<>> THEN 0
    ELSE Head(xs).quantity *
           (IF t.direction = "LONG" THEN Head(xs).price - t.entry_price
            ELSE t.entry_price - Head(xs).price)
         + partial_pl(t, Tail(xs))

\* "trade.profit_loss_amount or 0" of can_place_trade.
profit_loss_amount(t) ==
    IF ~has_profit_loss(t) THEN 0
    ELSE partial_pl(t, t.partial_exits)
         + profit_loss(t) * (t.quantity - partial_quantity(t.partial_exits))

\* ------------------------------------------------------------ Risk Engine
RECURSIVE SumClosedPL(_, _)
SumClosedPL(ts, ids) ==
    IF ids = <<>> THEN 0
    ELSE (IF is_closed(ts[Head(ids)]) THEN profit_loss_amount(ts[Head(ids)]) ELSE 0)
         + SumClosedPL(ts, Tail(ids))

today_pl(s) == SumClosedPL(s.trades, s.trades_by_date[today])

\* RiskManager.calculate_position_size.  raised: the log line divides the
\* risk amount by current_equity, which raises ZeroDivisionError at equity 0.
calculate_position_size(entry_price, stop_loss, max_contracts, multiplier) ==
    IF current_equity = None
    THEN [raised |-> FALSE, size |-> 1, risk_amount |-> Abs(entry_price - stop_loss)]
    ELSE LET price_difference == Abs(entry_price - stop_loss)
             risk_per_contract == price_difference * multiplier
             raw == IF risk_per_contract > 0
                    THEN (current_equity * risk_per_trade) \div (100 * risk_per_contract)
                    ELSE 1
             capped == IF max_contracts # None /\ raw > max_contracts
                       THEN max_contracts ELSE raw
             size == Max(1, capped)
         IN  [raised |-> current_equity = 0, size |-> size,
              risk_amount |-> size * risk_per_contract]

\* The four rejection tests of RiskManager.can_place_trade.
\* Mutant: the ceiling is only passed, not reached.
day_limit_reached_strict(s) == Len(s.trades_by_date[today]) > max_trades_per_day

day_limit_reached(s) == Len(s.trades_by_date[today]) >= max_trades_per_day

daily_loss_reached(s) == today_pl(s) * 100 < -(current_equity * max_daily_loss)

daily_profit_reached(s) ==
    /\ max_daily_profit # None
    /\ today_pl(s) * 100 > current_equity * max_daily_profit

\* Mutant: the per-trade risk test is missing.
risk_limit_exceeded_never(risk_amount) == FALSE

risk_limit_exceeded(risk_amount) == risk_amount * 100 > current_equity * risk_per_trade

\* RiskManager.can_place_trade.
can_place_trade(s, risk_amount) ==
    IF day_limit_reached(s)
    THEN [allowed |-> FALSE, reason |-> "Maximum trades per day reached"]
    ELSE IF current_equity = None
    THEN [allowed |-> TRUE, reason |-> ""]
    ELSE IF daily_loss_reached(s)
    THEN [allowed |-> FALSE, reason |-> "Maximum daily loss reached"]
    ELSE IF daily_profit_reached(s)
    THEN [allowed |-> FALSE, reason |-> "Maximum daily profit reached"]
    ELSE IF risk_limit_exceeded(risk_amount)
    THEN [allowed |-> FALSE, reason |-> "Risk amount exceeds maximum risk per trade"]
    ELSE [allowed |-> TRUE, reason |-> ""]

\* RiskManager.register_trade: file the trade under its entry date.
register_trade(s, id) ==
    [s EXCEPT !.trades_by_date[s.trades[id].entry_time] = Append(@, id)]

IsRegistered(s, id) ==
    \E d \in Days : \E i \in 1..Len(s.trades_by_date[d]) : s.trades_by_date[d][i] = id

\* Mutant: a trade whose order was rejected is taken out of the registry.
update_trade_drops_rejected(s, id) ==
    IF s.trades[id].status = "REJECTED"
    THEN [s EXCEPT !.trades_by_date =
             [d \in DOMAIN @ |-> SelectSeq(@[d], LAMBDA x : x # id)]]
    ELSE s
\* RiskManager.update_trade: the registry holds the Trade object itself, so
\* replacing the entry found by trade_id changes nothing; an unknown trade is
\* registered.
update_trade(s, id) == IF IsRegistered(s, id) THEN s ELSE register_trade(s, id)

\* ------------------------------------------------ BaseStrategy operations
\* Mutant: create_trade does not look at active_trades.
has_active_trade_never(s, symbol) == FALSE

\* "if symbol in self.active_trades" of create_trade.
has_active_trade(s, symbol) == s.active_trades[symbol] # 0

\* Mutant: create_trade ignores the answer of can_place_trade.
rejected_by_risk_never(cp) == FALSE

\* "if not can_place" of create_trade.
rejected_by_risk(cp) == ~cp.allowed

\* Mutant: a failed order is treated as a placed one.
order_failed_never(place) == FALSE

\* "if not success" of create_trade, on the broker's answer.
order_failed(place) == place = "fail"

\* BaseStrategy.create_trade.  allowed: is_trading_allowed() at the call;
\* place: the broker's answer to place_market_order ("fail", "ok" with order
\* details, "ok_nodetails" with none).  The result carries the new state and
\* what the call did: raised (an exception left the call), checked and
\* can_place (can_place_trade was called, and what it answered), risk_amount
\* (what calculate_position_size computed), ordered, registered, and trade
\* (the Trade returned, 0 for None).
create_trade(s, symbol, direction, entry_price, stop_loss, take_profit, allowed, place) ==
    LET \* ps: what calculate_position_size returned; cp: the answer of
        \* can_place_trade; nothing: the result of a call that returns None.
        order(ps, cp, nothing) ==
            LET id == Len(s.trades) + 1
                t == Trade(symbol, direction, entry_price, stop_loss, take_profit,
                           ps.size, today)
                s1 == register_trade([s EXCEPT !.trades = Append(@, t)], id)
                s2 == [s1 EXCEPT !.orders = @ + 1]
            IN  IF ~allowed THEN nothing
                ELSE IF has_active_trade(s, symbol) THEN nothing
                ELSE IF ps.raised THEN nothing
                ELSE IF rejected_by_risk(cp) THEN nothing
                ELSE IF order_failed(place)
                THEN [nothing EXCEPT
                        !.state = update_trade([s2 EXCEPT !.trades[id].status = "REJECTED"],
                                               id),
                        !.ordered = TRUE, !.registered = TRUE]
                ELSE [nothing EXCEPT
                        !.state = [s2 EXCEPT !.trades[id].status =
                                                 IF place = "ok" THEN "OPEN" ELSE @,
                                             !.active_trades[symbol] = id],
                        !.ordered = TRUE, !.registered = TRUE, !.trade = id]
        check(ps, cp) ==
            LET sized == allowed /\ ~has_active_trade(s, symbol)
                checked == sized /\ ~ps.raised
            IN  order(ps, cp,
                      [state |-> s, raised |-> sized /\ ps.raised, checked |-> checked,
                       can_place |-> checked /\ cp.allowed,
                       risk_amount |-> IF checked THEN ps.risk_amount ELSE 0,
                       ordered |-> FALSE, registered |-> FALSE, trade |-> 0])
        size(ps) == check(ps, can_place_trade(s, ps.risk_amount))
    IN  size(calculate_position_size(entry_price, stop_loss, position_size, 1))

\* Mutant: the trade is marked CLOSED without its exit time.
mark_closed_no_exit_time(t, exit_price, result) ==
    [t EXCEPT !.exit_price = exit_price, !.status = "CLOSED", !.result = result]

\* "Update trade" of close_trade: exit price, exit time, status, result.
mark_closed(t, exit_price, result) ==
    [t EXCEPT !.exit_price = exit_price, !.exit_time = today,
              !.status = "CLOSED", !.result = result]

\* Mutant: a trade that closes at its entry price counts as a loss.
trade_result_no_breakeven(pl) == IF pl > 0 THEN "WIN" ELSE "LOSS"
\* "Determine result" of close_trade, from the per-unit profit or loss.
trade_result(pl) == IF pl > 0 THEN "WIN" ELSE IF pl < 0 THEN "LOSS" ELSE "BREAKEVEN"

\* Mutant: the answer of close_position is not tested.
close_refused_never(closed) == FALSE
\* "if not success: ... return None" of close_trade.
close_refused(closed) == ~closed

\* BaseStrategy.close_trade.  closed: the broker's close_position succeeded.
close_trade(s, symbol, exit_price, closed) ==
    LET id == s.active_trades[symbol]
        t == s.trades[id]
        pl == IF t.direction = "LONG" THEN exit_price - t.entry_price
              ELSE t.entry_price - exit_price
        result == trade_result(pl)
        s1 == [s EXCEPT !.trades[id] = mark_closed(@, exit_price, result)]
        s2 == update_trade(s1, id)
    IN  IF id = 0 THEN [state |-> s, trade |-> 0]
        ELSE IF close_refused(closed) THEN [state |-> s, trade |-> 0]
        ELSE [state |-> [s2 EXCEPT !.active_trades[symbol] = 0,
                                   !.completed_trades = Append(@, id)],
              trade |-> id]

\* ------------------------------------------------------ strategy classes
\* The state a strategy handler rewrites, as one record.
CurStrategy ==
    [opening_ranges |-> opening_ranges, previous_day_levels |-> previous_day_levels,
     order_blocks |-> order_blocks, level_objects |-> level_objects,
     breakouts |-> breakouts, retests |-> retests, ledger |-> Cur]

CommitStrategy(st) ==
    /\ opening_ranges' = st.opening_ranges
    /\ previous_day_levels' = st.previous_day_levels
    /\ order_blocks' = st.order_blocks
    /\ level_objects' = st.level_objects
    /\ breakouts' = st.breakouts
    /\ retests' = st.retests
    /\ Commit(st.ledger)

NoRetest == [in_progress |-> FALSE, confirmed |-> FALSE, candles |-> <<>>]
NoBreakouts == [high |-> FALSE, low |-> FALSE]
NoRetests == [high |-> NoRetest, low |-> NoRetest]
NoRange == [identified |-> FALSE, high_level |-> None, low_level |-> None, candle |-> None]
NoLevels == [identified |-> FALSE, high_level |-> None, low_level |-> None, date |-> None]

\* The anchor record of a symbol: opening_ranges[symbol] of the ORB class,
\* previous_day_levels[symbol] of the PDH/PDL class.
anchors(st, symbol) ==
    IF variant = "orb" THEN st.opening_ranges[symbol] ELSE st.previous_day_levels[symbol]

\* A Level of an anchor as the ORB and PDH/PDL classes build it.  side:
\* "high" for OPENING_RANGE_HIGH / PREVIOUS_DAY_HIGH, "low" for the LOW types;
\* registered: add_level kept the level and registered its callback; breaks:
\* Level.breaks (of a break the model keeps the direction).
Level(side, price) == [side |-> side, price |-> price, registered |-> FALSE, breaks |-> <<>>]

\* BaseStrategy.add_level on the Level objects ls of a symbol: a level of the
\* same type within 0.0001 of a registered one is not registered.
add_level(ls, level) ==
    LET exists == \E i \in 1..Len(ls) :
                      /\ ls[i].registered
                      /\ ls[i].side = level.side
                      /\ Abs(ls[i].price - level.price) < 10
    IN  Append(ls, [level EXCEPT !.registered = ~exists])

\* The Level object an anchor record refers to: the last one built for the side.
anchor_object(ls, side) ==
    CHOOSE i \in 1..Len(ls) : ls[i].side = side /\ \A j \in (i + 1)..Len(ls) : ls[j].side # side

\* Level.add_break on Level object i.
add_break(ls, i, direction) ==
    [ls EXCEPT ![i].breaks = Append(@, [direction |-> direction])]

\* ORBStrategy._identify_opening_range (the candle kept is modelled by its date).
identify_opening_range(st, symbol, candle) ==
    IF st.opening_ranges[symbol].identified THEN st
    ELSE [st EXCEPT !.opening_ranges[symbol] =
              [identified |-> TRUE, high_level |-> candle.high_price,
               low_level |-> candle.low_price, candle |-> today],
                    !.level_objects[symbol] =
                        add_level(add_level(@, Level("high", candle.high_price)),
                                  Level("low", candle.low_price))]

\* PDHPDLStrategy._identify_previous_day_levels.  history: what
\* data_feed.get_candles(symbol, htf_timeframe, count=2) returns.
identify_previous_day_levels(st, symbol, history) ==
    IF Len(history) < 2 THEN st
    ELSE LET prev_day_candle == history[Len(history) - 1]
         IN  [st EXCEPT !.previous_day_levels[symbol] =
                            [identified |-> TRUE, high_level |-> prev_day_candle.high_price,
                             low_level |-> prev_day_candle.low_price, date |-> today],
                        !.level_objects[symbol] =
                            add_level(add_level(@, Level("high", prev_day_candle.high_price)),
                                      Level("low", prev_day_candle.low_price)),
                        !.breakouts[symbol] = NoBreakouts,
                        !.retests[symbol] = NoRetests]

\* PDHPDLStrategy._on_daily_candle (the candle's date is today).
on_daily_candle(st, symbol, history) ==
    IF /\ st.previous_day_levels[symbol].identified
       /\ st.previous_day_levels[symbol].date = today
    THEN st
    ELSE identify_previous_day_levels(st, symbol, history)

\* Ten times the product of a price (a multiple of 1000 units) and a
\* fraction given in units of 1/10000.
x10(price, fraction) == (price \div 1000) * fraction

\* The breakout tests of _check_for_breakouts.
breaks_above(candle, level) ==
    candle.close_price * 10 > level * 10 + x10(level, breakout_threshold)

breaks_below(candle, level) ==
    candle.close_price * 10 < level * 10 - x10(level, breakout_threshold)

\* ORBStrategy / PDHPDLStrategy ._check_for_breakouts.
check_for_breakouts(st, symbol, candle) ==
    LET a == anchors(st, symbol)
        b == st.breakouts[symbol]
        ls == st.level_objects[symbol]
        high == ~b.high /\ breaks_above(candle, a.high_level)
        low == ~b.low /\ breaks_below(candle, a.low_level)
        ls1 == IF high THEN add_break(ls, anchor_object(ls, "high"), "above") ELSE ls
        ls2 == IF low THEN add_break(ls1, anchor_object(ls1, "low"), "below") ELSE ls1
    IN  IF ~a.identified THEN st
        ELSE [st EXCEPT !.breakouts[symbol] = [high |-> b.high \/ high, low |-> b.low \/ low],
                        !.level_objects[symbol] = ls2]

\* ORBStrategy.on_orb_candle.  is_opening: the candle's time of day is the
\* session start.
on_orb_candle(st, symbol, candle, is_opening) ==
    check_for_breakouts(IF is_opening THEN identify_opening_range(st, symbol, candle)
                        ELSE st,
                        symbol, candle)

\* ORBStrategy / PDHPDLStrategy .on_level_cross, called with Level object i
\* of the symbol.
on_level_cross(st, symbol, i) ==
    LET side == st.level_objects[symbol][i].side
    IN  IF st.breakouts[symbol][side] THEN st
        ELSE [st EXCEPT !.breakouts[symbol][side] = TRUE,
                        !.level_objects[symbol] =
                            add_break(@, i, IF side = "high" THEN "above" ELSE "below")]

\* DataFeed._on_candle_update when the price crossed a watched level of the
\* symbol: every level callback of the symbol is called, in the order of
\* registration, from Level object i on.
RECURSIVE level_crossed(_, _, _)
level_crossed(st, symbol, i) ==
    IF i > Len(st.level_objects[symbol]) THEN st
    ELSE level_crossed(IF st.level_objects[symbol][i].registered
                       THEN on_level_cross(st, symbol, i) ELSE st,
                       symbol, i + 1)

\* The price of a candle that probes an anchor: the low for the high anchor,
\* the high for the low anchor.
probe(candle, side) == IF side = "high" THEN candle.low_price ELSE candle.high_price

\* "abs(candle.low_price - level.price) <= level.price * retest_threshold".
near_level(candle, side, level) ==
    Abs(probe(candle, side) - level) * 10 <= x10(level, retest_threshold)

\* "last_candle.close_price > level.price" (high), "< level.price" (low).
bounced(candle, side, level) ==
    IF side = "high" THEN candle.close_price > level ELSE candle.close_price < level

\* Mutant: any number of accumulated candles is enough.
enough_candles_always(candles) == TRUE

\* "len(candles) >= self.confirmation_candles".
enough_candles(candles) == Len(candles) >= confirmation_candles

\* Mutant: the retest is cancelled only beyond 3 x retest_threshold.
moved_away_3x(candle, side, level) ==
    IF side = "high"
    THEN candle.low_price * 10 < level * 10 - x10(level, retest_threshold) * 3
    ELSE candle.high_price * 10 > level * 10 + x10(level, retest_threshold) * 3

\* "candle.low_price < level.price - level.price * retest_threshold * 2" (high),
\* "candle.high_price > level.price + level.price * retest_threshold * 2" (low).
moved_away(candle, side, level) ==
    IF side = "high"
    THEN candle.low_price * 10 < level * 10 - x10(level, retest_threshold) * 2
    ELSE candle.high_price * 10 > level * 10 + x10(level, retest_threshold) * 2

\* One of the two symmetric blocks of _check_for_retests: the retest record
\* rec of one side after the candle, given that side's breakout flag.
retest_side(rec, broken, side, level, candle) ==
    IF ~(broken /\ ~rec.confirmed) THEN rec
    ELSE IF near_level(candle, side, level)
    THEN LET r1 == IF ~rec.in_progress
                   THEN [rec EXCEPT !.in_progress = TRUE, !.candles = <<candle>>]
                   ELSE [rec EXCEPT !.candles = Append(@, candle)]
         IN  IF /\ enough_candles(r1.candles)
                /\ bounced(r1.candles[Len(r1.candles)], side, level)
             THEN [r1 EXCEPT !.confirmed = TRUE]
             ELSE r1
    ELSE IF rec.in_progress /\ ~rec.confirmed /\ moved_away(candle, side, level)
    THEN [rec EXCEPT !.in_progress = FALSE, !.candles = <<>>]
    ELSE rec

\* ORBStrategy / PDHPDLStrategy ._check_for_retests.
check_for_retests(st, symbol, candle) ==
    LET a == anchors(st, symbol)
        b == st.breakouts[symbol]
        r == st.retests[symbol]
    IN  IF ~a.identified THEN st
        ELSE [st EXCEPT !.retests[symbol] =
                  [high |-> retest_side(r.high, b.high, "high", a.high_level, candle),
                   low |-> retest_side(r.low, b.low, "low", a.low_level, candle)]]

\* "x - x * stop_loss_buffer" and "x + x * stop_loss_buffer".
below_with_buffer(x) == x - x10(x, stop_loss_buffer) \div 10
above_with_buffer(x) == x + x10(x, stop_loss_buffer) \div 10

RECURSIVE min_low(_)
min_low(candles) ==
    IF Len(candles) = 1 THEN candles[1].low_price
    ELSE Min(candles[1].low_price, min_low(Tail(candles)))

RECURSIVE max_high(_)
max_high(candles) ==
    IF Len(candles) = 1 THEN candles[1].high_price
    ELSE Max(candles[1].high_price, max_high(Tail(candles)))

\* Stop-loss and take-profit of an entry at the candle's close: level is the
\* anchor (zone edge) the stop sits behind, other the opposite anchor.
long_stop_loss(level, retest_candles) ==
    IF stop_loss_type = "level" THEN below_with_buffer(level)
    ELSE below_with_buffer(min_low(retest_candles))

short_stop_loss(level, retest_candles) ==
    IF stop_loss_type = "level" THEN above_with_buffer(level)
    ELSE above_with_buffer(max_high(retest_candles))

long_take_profit(candle, stop_loss, high_level, low_level) ==
    IF take_profit_type = "risk_reward"
    THEN candle.close_price + (candle.close_price - stop_loss) * take_profit_ratio
    ELSE high_level + (high_level - low_level)

short_take_profit(candle, stop_loss, high_level, low_level) ==
    IF take_profit_type = "risk_reward"
    THEN candle.close_price - (stop_loss - candle.close_price) * take_profit_ratio
    ELSE low_level - (high_level - low_level)

\* The arguments of a create_trade call of a strategy (level: the side of the
\* anchor, or the type and price of the order block), and no call.
Request(direction, entry_price, stop_loss, take_profit, level) ==
    [direction |-> direction, entry_price |-> entry_price, stop_loss |-> stop_loss,
     take_profit |-> take_profit, level |-> level]

NoRequest == [direction |-> "NONE"]

\* ORBStrategy / PDHPDLStrategy ._check_for_entries.  allowed:
\* is_trading_allowed(); htf_trend: get_htf_trend(symbol); place: the broker's
\* answer to the order.  raised: create_trade raised, which leaves the handler.
check_for_entries(st, symbol, candle, allowed, htf_trend, place) ==
    LET a == anchors(st, symbol)
        b == st.breakouts[symbol]
        r == st.retests[symbol]
        none == [state |-> st, raised |-> FALSE, trade |-> 0, request |-> NoRequest]
        long_stop == long_stop_loss(a.high_level, r.high.candles)
        short_stop == short_stop_loss(a.low_level, r.low.candles)
        \* q: the arguments of the create_trade call; created: what it
        \* returned; then "Reset retest tracking".
        entered(side, q, created) ==
            IF created.raised
            THEN [state |-> [st EXCEPT !.ledger = created.state], raised |-> TRUE, trade |-> 0,
                  request |-> q]
            ELSE [state |-> [st EXCEPT !.ledger = created.state,
                                       !.retests[symbol][side].confirmed = FALSE],
                  raised |-> FALSE, trade |-> created.trade, request |-> q]
        requested(side, q) ==
            entered(side, q,
                    create_trade(st.ledger, symbol, q.direction, q.entry_price, q.stop_loss,
                                 q.take_profit, allowed, place))
    IN  IF has_active_trade(st.ledger, symbol) THEN none
        ELSE IF ~allowed THEN none
        ELSE IF ~a.identified THEN none
        ELSE IF b.high /\ r.high.confirmed
        THEN IF htf_filter_enabled /\ htf_trend = "DOWN" THEN none
             ELSE requested("high",
                            Request("LONG", candle.close_price, long_stop,
                                    long_take_profit(candle, long_stop, a.high_level,
                                                     a.low_level),
                                    "high"))
        ELSE IF b.low /\ r.low.confirmed
        THEN IF htf_filter_enabled /\ htf_trend = "UP" THEN none
             ELSE requested("low",
                            Request("SHORT", candle.close_price, short_stop,
                                    short_take_profit(candle, short_stop, a.high_level,
                                                      a.low_level),
                                    "low"))
        ELSE none

\* Mutant: the target is tested before the stop.
exit_decision_target_first(t, candle) ==
    IF t.direction = "LONG"
    THEN IF candle.high_price >= t.take_profit
         THEN [hit |-> "take_profit", price |-> t.take_profit]
         ELSE IF candle.low_price <= t.stop_loss
         THEN [hit |-> "stop_loss", price |-> t.stop_loss]
         ELSE [hit |-> "none", price |-> None]
    ELSE IF candle.low_price <= t.take_profit
         THEN [hit |-> "take_profit", price |-> t.take_profit]
         ELSE IF candle.high_price >= t.stop_loss
         THEN [hit |-> "stop_loss", price |-> t.stop_loss]
         ELSE [hit |-> "none", price |-> None]

\* The tests of _check_for_exits in their order: which level the candle hit
\* and the exit price handed to close_trade.
exit_decision(t, candle) ==
    IF t.direction = "LONG"
    THEN IF candle.low_price <= t.stop_loss
         THEN [hit |-> "stop_loss", price |-> t.stop_loss]
         ELSE IF candle.high_price >= t.take_profit
         THEN [hit |-> "take_profit", price |-> t.take_profit]
         ELSE [hit |-> "none", price |-> None]
    ELSE IF candle.high_price >= t.stop_loss
         THEN [hit |-> "stop_loss", price |-> t.stop_loss]
         ELSE IF candle.low_price <= t.take_profit
         THEN [hit |-> "take_profit", price |-> t.take_profit]
         ELSE [hit |-> "none", price |-> None]

\* _check_for_exits (the same code in the three classes).  closed: the
\* broker's answer to close_position.  exit_trade: the trade examined;
\* close_failed: close_trade was called and returned no trade.
check_for_exits(st, symbol, candle, closed) ==
    LET id == st.ledger.active_trades[symbol]
        d == exit_decision(st.ledger.trades[id], candle)
        \* c: what close_trade returned.
        exited(c) == [state |-> [st EXCEPT !.ledger = c.state],
                      exit_trade |-> id, close_failed |-> c.trade = 0]
    IN  IF id = 0 THEN [state |-> st, exit_trade |-> 0, close_failed |-> FALSE]
        ELSE IF d.hit = "none"
        THEN [state |-> st, exit_trade |-> id, close_failed |-> FALSE]
        ELSE exited(close_trade(st.ledger, symbol, d.price, closed))

\* What a candle handler did: the new state, the retest records that
\* _check_for_retests confirmed and those it cancelled, the trade the entry
\* check created (0: none), whether an exception left the handler, the trade
\* the exit check examined (0: none) and whether its close failed.
Untouched(st) ==
    [state |-> st, confirmed |-> {}, cancelled |-> {}, entered |-> 0,
     request |-> NoRequest, raised |-> FALSE, exit_trade |-> 0, close_failed |-> FALSE]

\* The records of the dict after that were confirmed since before.
NewlyConfirmed(before, after) ==
    {k \in DOMAIN after :
        after[k].confirmed /\ ~(k \in DOMAIN before /\ before[k].confirmed)}

\* The records in progress in the dict before that are not in the dict after.
NewlyCancelled(before, after) ==
    {k \in DOMAIN before : before[k].in_progress /\ ~after[k].in_progress}

\* The common tail of on_candle: retests, entries, exits.
retests_entries_exits(st, symbol, candle, allowed, htf_trend, place, closed) ==
    LET \* s1, e, x: what the retest, entry and exit checks returned.
        exits(s1, e, x) ==
            [state |-> x.state,
             confirmed |-> NewlyConfirmed(st.retests[symbol], s1.retests[symbol]),
             cancelled |-> NewlyCancelled(st.retests[symbol], s1.retests[symbol]),
             entered |-> e.trade, request |-> e.request, raised |-> FALSE,
             exit_trade |-> x.exit_trade, close_failed |-> x.close_failed]
        entries(s1, e) ==
            IF e.raised
            THEN [state |-> e.state,
                  confirmed |-> NewlyConfirmed(st.retests[symbol], s1.retests[symbol]),
                  cancelled |-> NewlyCancelled(st.retests[symbol], s1.retests[symbol]),
                  entered |-> 0, request |-> e.request, raised |-> TRUE, exit_trade |-> 0,
                  close_failed |-> FALSE]
            ELSE exits(s1, e, check_for_exits(e.state, symbol, candle, closed))
        retests_(s1) ==
            entries(s1, check_for_entries(s1, symbol, candle, allowed, htf_trend, place))
    IN  retests_(check_for_retests(st, symbol, candle))

\* ORBStrategy.on_candle.
orb_on_candle(st, symbol, candle, allowed, htf_trend, place, closed) ==
    IF ~st.opening_ranges[symbol].identified THEN Untouched(st)
    ELSE IF ~st.breakouts[symbol].high /\ ~st.breakouts[symbol].low THEN Untouched(st)
    ELSE retests_entries_exits(st, symbol, candle, allowed, htf_trend, place, closed)

\* PDHPDLStrategy.on_candle.
pdh_on_candle(st, symbol, candle, allowed, htf_trend, place, closed) ==
    IF ~st.previous_day_levels[symbol].identified THEN Untouched(st)
    ELSE retests_entries_exits(check_for_breakouts(st, symbol, candle), symbol, candle,
                               allowed, htf_trend, place, closed)

\* ----------------------------------------------------- OrderBlockStrategy
\* A Level of an order block as add_manual_order_block builds it.
OrderBlockLevel(q) ==
    [level_type |-> IF q.direction = "bullish" THEN "BULLISH_ORDER_BLOCK"
                    ELSE "BEARISH_ORDER_BLOCK",
     price |-> q.price, zone_high |-> q.zone_high, zone_low |-> q.zone_low,
     is_active |-> TRUE]

\* "self.retests[symbol][price] = {...}": set one key of a dict.
SetKey(map, key, value) ==
    [k \in DOMAIN map \cup {key} |-> IF k = key THEN value ELSE map[k]]

\* OrderBlockStrategy.add_manual_order_block.
add_manual_order_block(st, symbol, q) ==
    [st EXCEPT !.order_blocks[symbol] = Append(@, OrderBlockLevel(q)),
               !.retests[symbol] = SetKey(@, q.price, NoRetest)]

\* The two loops of OrderBlockStrategy.identify_order_blocks over the candles
\* get_candles returned, from 0-based index i on.  bullish: the first loop
\* (a down candle followed by a significant up move), else the second.
RECURSIVE scan_order_blocks(_, _, _, _, _)
scan_order_blocks(st, symbol, candles, i, bullish) ==
    IF i >= Len(candles) - 3 THEN st
    ELSE LET c == candles[i + 1]
             c2 == candles[i + 3]
             down == c.close_price < c.open_price
             up == c.close_price > c.open_price
             move == IF bullish THEN c2.close_price - c.close_price
                     ELSE c.close_price - c2.close_price
             level == OrderBlockLevel([direction |-> IF bullish THEN "bullish" ELSE "bearish",
                                       price |-> (c.high_price + c.low_price) \div 2,
                                       zone_high |-> c.high_price, zone_low |-> c.low_price])
         IN  IF bullish /\ ~down THEN scan_order_blocks(st, symbol, candles, i + 1, bullish)
             ELSE IF ~bullish /\ ~up THEN scan_order_blocks(st, symbol, candles, i + 1, bullish)
             ELSE IF move * 10 < x10(c.close_price, significant_move_threshold)
             THEN scan_order_blocks(st, symbol, candles, i + 1, bullish)
             ELSE scan_order_blocks(
                      [st EXCEPT !.order_blocks[symbol] = Append(@, level),
                                 !.retests[symbol] = SetKey(@, level.price, NoRetest)],
                      symbol, candles, i + 1, bullish)

\* OrderBlockStrategy.identify_order_blocks.  candles: what
\* data_feed.get_candles(symbol, execution_timeframe, count=lookback_period)
\* returns.
identify_order_blocks(st, symbol, candles) ==
    IF Len(candles) < lookback_period THEN st
    ELSE scan_order_blocks(scan_order_blocks(st, symbol, candles, 0, TRUE),
                           symbol, candles, 0, FALSE)

\* OrderBlockStrategy.on_level_cross for an order-block level.
ob_on_level_cross(st, symbol, level) ==
    LET known == IF level.price \in DOMAIN st.retests[symbol] THEN st.retests[symbol]
                 ELSE SetKey(st.retests[symbol], level.price, NoRetest)
    IN  [st EXCEPT !.retests[symbol] = [known EXCEPT ![level.price].in_progress = TRUE]]

\* DataFeed._on_candle_update when the price crossed a watched level of the
\* symbol: the callbacks of every order-block level are called, from level i
\* on.  (A level add_level did not register has the type and the price of a
\* registered one, whose callback rewrites the same retest record.)
RECURSIVE ob_level_crossed(_, _, _)
ob_level_crossed(st, symbol, i) ==
    IF i > Len(st.order_blocks[symbol]) THEN st
    ELSE ob_level_crossed(ob_on_level_cross(st, symbol, st.order_blocks[symbol][i]),
                          symbol, i + 1)

\* "price is in the order block zone".
in_zone(candle, level) ==
    IF level.level_type = "BULLISH_ORDER_BLOCK"
    THEN candle.low_price <= level.zone_high /\ candle.low_price >= level.zone_low
    ELSE candle.high_price >= level.zone_low /\ candle.high_price <= level.zone_high

\* "last_candle.close_price > level.zone_high" (bullish), "< level.zone_low".
ob_bounced(candle, level) ==
    IF level.level_type = "BULLISH_ORDER_BLOCK"
    THEN candle.close_price > level.zone_high
    ELSE candle.close_price < level.zone_low

\* "candle.low_price < zone_low - zone_low * retest_threshold" (bullish),
\* "candle.high_price > zone_high + zone_high * retest_threshold" (bearish).
ob_moved_away(candle, level) ==
    IF level.level_type = "BULLISH_ORDER_BLOCK"
    THEN candle.low_price * 10 < level.zone_low * 10 - x10(level.zone_low, retest_threshold)
    ELSE candle.high_price * 10 > level.zone_high * 10 + x10(level.zone_high, retest_threshold)

\* The body of the loop of OrderBlockStrategy._check_for_retests for one
\* active level: its retest record after the candle.
ob_retest_level(rec, level, candle) ==
    IF in_zone(candle, level)
    THEN LET r1 == IF ~rec.in_progress
                   THEN [rec EXCEPT !.in_progress = TRUE, !.candles = <<candle>>]
                   ELSE [rec EXCEPT !.candles = Append(@, candle)]
         IN  IF /\ enough_candles(r1.candles)
                /\ ob_bounced(r1.candles[Len(r1.candles)], level)
             THEN [r1 EXCEPT !.confirmed = TRUE]
             ELSE r1
    ELSE IF rec.in_progress /\ ~rec.confirmed /\ ob_moved_away(candle, level)
    THEN [rec EXCEPT !.in_progress = FALSE, !.candles = <<>>]
    ELSE rec

\* The loop of OrderBlockStrategy._check_for_retests from level i on, over
\* the dict rts of retest records.
RECURSIVE ob_retest_levels(_, _, _, _)
ob_retest_levels(rts, levels, i, candle) ==
    IF i > Len(levels) THEN rts
    ELSE IF ~levels[i].is_active THEN ob_retest_levels(rts, levels, i + 1, candle)
    ELSE LET level == levels[i]
             known == IF level.price \in DOMAIN rts THEN rts
                      ELSE SetKey(rts, level.price, NoRetest)
         IN  ob_retest_levels(
                 [known EXCEPT ![level.price] = ob_retest_level(@, level, candle)],
                 levels, i + 1, candle)

\* OrderBlockStrategy._check_for_retests.
ob_check_for_retests(st, symbol, candle) ==
    [st EXCEPT !.retests[symbol] = ob_retest_levels(@, st.order_blocks[symbol], 1, candle)]

\* The level the loop of OrderBlockStrategy._check_for_entries enters from: an
\* active level with a confirmed retest that the trend filter does not skip.
ob_enters(st, symbol, i, htf_trend) ==
    LET level == st.order_blocks[symbol][i]
    IN  /\ level.is_active
        /\ level.price \in DOMAIN st.retests[symbol]
        /\ st.retests[symbol][level.price].confirmed
        /\ ~(htf_filter_enabled /\
             htf_trend = (IF level.level_type = "BULLISH_ORDER_BLOCK" THEN "DOWN" ELSE "UP"))

\* OrderBlockStrategy._check_for_entries.
ob_check_for_entries(st, symbol, candle, allowed, htf_trend, place) ==
    LET levels == st.order_blocks[symbol]
        hits == {i \in 1..Len(levels) : ob_enters(st, symbol, i, htf_trend)}
        i == CHOOSE j \in hits : \A k \in hits : j <= k
        level == levels[i]
        retest_candles == st.retests[symbol][level.price].candles
        bullish == level.level_type = "BULLISH_ORDER_BLOCK"
        stop_loss == IF bullish THEN long_stop_loss(level.zone_low, retest_candles)
                     ELSE short_stop_loss(level.zone_high, retest_candles)
        take_profit ==
            IF bullish
            THEN candle.close_price + (candle.close_price - stop_loss) *
                     (IF take_profit_type = "risk_reward" THEN take_profit_ratio ELSE 2)
            ELSE candle.close_price - (stop_loss - candle.close_price) *
                     (IF take_profit_type = "risk_reward" THEN take_profit_ratio ELSE 2)
        none == [state |-> st, raised |-> FALSE, trade |-> 0, request |-> NoRequest]
        \* q: the arguments of the create_trade call; created: what it
        \* returned; then the retest is reset and the level deactivated.
        entered(q, created) ==
            IF created.raised
            THEN [state |-> [st EXCEPT !.ledger = created.state], raised |-> TRUE, trade |-> 0,
                  request |-> q]
            ELSE [state |-> [st EXCEPT !.ledger = created.state,
                                       !.retests[symbol][level.price].confirmed = FALSE,
                                       !.order_blocks[symbol][i].is_active = FALSE],
                  raised |-> FALSE, trade |-> created.trade, request |-> q]
        requested(q) ==
            entered(q, create_trade(st.ledger, symbol, q.direction, q.entry_price, q.stop_loss,
                                    q.take_profit, allowed, place))
    IN  IF has_active_trade(st.ledger, symbol) THEN none
        ELSE IF ~allowed THEN none
        ELSE IF levels = <<>> THEN none
        ELSE IF hits = {} THEN none
        ELSE requested(Request(IF bullish THEN "LONG" ELSE "SHORT", candle.close_price,
                               stop_loss, take_profit,
                               [level_type |-> level.level_type, price |-> level.price]))

\* OrderBlockStrategy.on_candle.
ob_on_candle(st, symbol, candle, allowed, htf_trend, place, closed) ==
    LET \* s1, e, x: what the retest, entry and exit checks returned.
        exits(s1, e, x) ==
            [state |-> x.state,
             confirmed |-> NewlyConfirmed(st.retests[symbol], s1.retests[symbol]),
             cancelled |-> NewlyCancelled(st.retests[symbol], s1.retests[symbol]),
             entered |-> e.trade, request |-> e.request, raised |-> FALSE,
             exit_trade |-> x.exit_trade, close_failed |-> x.close_failed]
        entries(s1, e) ==
            IF e.raised
            THEN [state |-> e.state,
                  confirmed |-> NewlyConfirmed(st.retests[symbol], s1.retests[symbol]),
                  cancelled |-> NewlyCancelled(st.retests[symbol], s1.retests[symbol]),
                  entered |-> 0, request |-> e.request, raised |-> TRUE, exit_trade |-> 0,
                  close_failed |-> FALSE]
            ELSE exits(s1, e, check_for_exits(e.state, symbol, candle, closed))
        retests_(s1) ==
            entries(s1, ob_check_for_entries(s1, symbol, candle, allowed, htf_trend, place))
    IN  IF st.order_blocks[symbol] = <<>> THEN Untouched(st)
        ELSE retests_(ob_check_for_retests(st, symbol, candle))

\* OrderBlockStrategy._on_execution_candle.  rescan: the candle's timestamp
\* has minute % 15 = 0 and second = 0.
on_execution_candle(st, symbol, candle, rescan, candles, allowed, htf_trend, place, closed) ==
    ob_on_candle(IF rescan THEN identify_order_blocks(st, symbol, candles) ELSE st,
                 symbol, candle, allowed, htf_trend, place, closed)

\* ------------------------------------------------------------ CandleBuilder
\* A timestamp is a number of minutes since midnight.  "No candle": None.
NoCandle == [symbol |-> "none"]

\* "candle_time.replace(minute=(minutes // self.timeframe) * self.timeframe,
\* second=0, microsecond=0)": the hour is kept, the minute of the hour floored.
timeframe_start(timestamp, tf) ==
    (timestamp \div 60) * 60 + ((timestamp % 60) \div tf) * tf

\* Mutant: the new candle does not take the volume of the input.
new_candle_no_volume(candle, tf) ==
    [candle EXCEPT !.timestamp = timeframe_start(candle.timestamp, tf),
                   !.timeframe = tf, !.is_complete = FALSE, !.volume = 0]

\* Candle(...) as _update_from_smaller_timeframe builds it from the input.
new_candle(candle, tf) ==
    [candle EXCEPT !.timestamp = timeframe_start(candle.timestamp, tf),
                   !.timeframe = tf, !.is_complete = FALSE]

\* Mutant: the merge keeps the high and the low of the current candle.
merge_candle_no_extremes(cur, candle) ==
    [cur EXCEPT !.close_price = candle.close_price, !.volume = @ + candle.volume]

\* "Update the current candle": the input merged into the current candle.
merge_candle(cur, candle) ==
    [cur EXCEPT !.high_price = Max(@, candle.high_price),
                !.low_price = Min(@, candle.low_price),
                !.close_price = candle.close_price,
                !.volume = @ + candle.volume]

\* Mutant: the bucket counts as complete from its first minute on.
next_timeframe_start_reached_at_start(candle, current_timeframe_start, tf) ==
    candle.timestamp >= current_timeframe_start
\* "if candle.timestamp >= next_timeframe_start", the test made after a merge.
next_timeframe_start_reached(candle, current_timeframe_start, tf) ==
    candle.timestamp >= current_timeframe_start + tf

\* CandleBuilder._update_from_smaller_timeframe on a builder of timeframe tf
\* whose current candle is cur: the current candle it leaves and the candle
\* it returns.
update_from_smaller_timeframe(cur, tf, candle) ==
    LET current_timeframe_start == timeframe_start(candle.timestamp, tf)
        merged == merge_candle(cur, candle)
    IN  IF cur = NoCandle
        THEN [current_candle |-> new_candle(candle, tf), returned |-> NoCandle]
        ELSE IF cur.timestamp = current_timeframe_start
        THEN IF next_timeframe_start_reached(candle, current_timeframe_start, tf)
             THEN [current_candle |-> NoCandle,
                   returned |-> [merged EXCEPT !.is_complete = TRUE]]
             ELSE [current_candle |-> merged, returned |-> NoCandle]
        ELSE [current_candle |-> new_candle(candle, tf),
              returned |-> [cur EXCEPT !.is_complete = TRUE]]

\* Mutant: no candle is taken for one of a wrong symbol.
wrong_symbol_never(candle) == FALSE

\* "if candle.symbol != self.symbol".
wrong_symbol(candle) == candle.symbol # BuilderSymbol

\* Mutant: no candle is passed through.
passes_through_never(candle, tf) == FALSE

\* "if candle.is_complete and candle.timeframe == self.timeframe".
passes_through(candle, tf) == candle.is_complete /\ candle.timeframe = tf

\* CandleBuilder.update.
update(cur, tf, candle) ==
    IF wrong_symbol(candle) THEN [current_candle |-> cur, returned |-> NoCandle]
    ELSE IF passes_through(candle, tf)
    THEN [current_candle |-> NoCandle, returned |-> candle]
    ELSE IF candle.timeframe < tf THEN update_from_smaller_timeframe(cur, tf, candle)
    ELSE IF candle.timeframe > tf THEN [current_candle |-> cur, returned |-> NoCandle]
    ELSE [current_candle |-> candle, returned |-> NoCandle]

\* ----------------------------------------------------------------- DataFeed
\* The part of the DataFeed _on_candle_update reads and writes, as one record.
CurHub == [current_candle |-> current_candle, candle_history |-> candle_history,
           candle_callbacks |-> candle_callbacks, level_callbacks |-> level_callbacks,
           price_levels |-> price_levels]

\* What a thread holds outside a handler: no candle of _on_candle_update, no
\* request and no Trade of create_trade; active is active_trades[symbol] of
\* the strategy and symbol the thread delivers for.
NoLocal == [candle |-> NoCandle, complete_candle |-> NoCandle,
            request |-> NoRequest, trade |-> 0, active |-> 0]

\* DataFeed.add_candle_callback.
add_candle_callback(h, callback) ==
    [h EXCEPT !.candle_callbacks = Append(@, callback)]

\* list.remove: the first occurrence is dropped.
RECURSIVE list_remove(_, _)
list_remove(list, x) ==
    IF list = <<>> THEN <<>>
    ELSE IF Head(list) = x THEN Tail(list)
    ELSE <<Head(list)>> \o list_remove(Tail(list), x)

\* DataFeed.remove_candle_callback.
remove_candle_callback(h, callback) ==
    [h EXCEPT !.candle_callbacks = list_remove(@, callback)]

\* DataFeed.add_level_callback.
add_level_callback(h, level, callback) ==
    [h EXCEPT !.level_callbacks = Append(@, callback),
              !.price_levels = @ \cup {level}]

\* BaseStrategy.add_level for each of the levels a candle callback builds
\* (ORBStrategy._identify_opening_range, from on_orb_candle), lowest first:
\* one lambda per level is registered with the feed.
RECURSIVE add_levels(_, _)
add_levels(h, levels) ==
    IF levels = {} THEN h
    ELSE LET level == CHOOSE l \in levels : \A m \in levels : l <= m
         IN  add_levels(add_level_callback(h, level, Callback("on_level_cross", level)),
                        levels \ {level})

\* Mutant: no handler around the call of a callback.
caught_never(raised) == FALSE
\* "except Exception as e: self.logger.error(...)" around each callback call.
caught(raised) == raised

\* "for callback in self.candle_callbacks[symbol][timeframe]": each callback
\* is called with the complete candle.  The callbacks named in faulty raise;
\* on_orb_candle, when it does not, registers the levels of adds.
RECURSIVE notify_candle(_, _, _, _, _, _)
notify_candle(h, i, complete_candle, faulty, adds, calls) ==
    IF i > Len(h.candle_callbacks)
    THEN [hub |-> h, candle_calls |-> calls, propagated |-> FALSE]
    ELSE LET callback == h.candle_callbacks[i]
             raised == callback.name \in faulty
             after == IF ~raised /\ callback.name = "on_orb_candle"
                      THEN add_levels(h, adds) ELSE h
             called == Append(calls, [callback |-> callback, candle |-> complete_candle,
                                      raised |-> raised])
         IN  IF raised /\ ~caught(raised)
             THEN [hub |-> after, candle_calls |-> called, propagated |-> TRUE]
             ELSE notify_candle(after, i + 1, complete_candle, faulty, adds, called)

\* DataFeed.get_candles for count = 1 and DataFeed.get_last_complete_candle.
get_last_complete_candle(h, symbol, tf) ==
    IF symbol # BuilderSymbol \/ tf # timeframe \/ h.candle_history = <<>>
    THEN NoCandle
    ELSE h.candle_history[Len(h.candle_history)]

\* The levels of a set in the order an iteration over it visits them.
RECURSIVE in_order(_, _)
in_order(levels, descending) ==
    IF levels = {} THEN <<>>
    ELSE LET level == CHOOSE l \in levels :
                          \A m \in levels : IF descending THEN l >= m ELSE l <= m
         IN  <<level>> \o in_order(levels \ {level}, descending)

\* "(last_price < level and current_price >= level) or
\*  (last_price > level and current_price <= level)".
crossed(last_price, current_price, level) ==
    \/ last_price < level /\ current_price >= level
    \/ last_price > level /\ current_price <= level

\* "for callback in self.level_callbacks[symbol]" for each crossed level of
\* levels, from call i of the pass on.
RECURSIVE notify_level(_, _, _, _, _)
notify_level(h, levels, i, faulty, calls) ==
    IF levels = <<>> THEN [level_calls |-> calls, propagated |-> FALSE]
    ELSE IF i > Len(h.level_callbacks) THEN notify_level(h, Tail(levels), 1, faulty, calls)
    ELSE LET callback == h.level_callbacks[i]
             raised == callback.name \in faulty
             called == Append(calls, [callback |-> callback, level |-> Head(levels),
                                      raised |-> raised])
         IN  IF raised /\ ~caught(raised)
             THEN [level_calls |-> called, propagated |-> TRUE]
             ELSE notify_level(h, levels, i + 1, faulty, called)

\* "Check price levels" of DataFeed._on_candle_update.
check_levels(h, candle, faulty, descending) ==
    LET last_candle == get_last_complete_candle(h, candle.symbol, candle.timeframe)
        levels == in_order(h.price_levels, descending)
        hit == SelectSeq(levels, LAMBDA level :
                   crossed(last_candle.close_price, candle.close_price, level))
    IN  IF candle.symbol # BuilderSymbol \/ h.price_levels = {} \/ last_candle = NoCandle
        THEN [level_calls |-> <<>>, propagated |-> FALSE]
        ELSE notify_level(h, hit, 1, faulty, <<>>)

\* "Update candle builder" of DataFeed._on_candle_update: builder.update for
\* a candle of a key the feed tracks.
builder_update(h, candle) ==
    IF candle.symbol = BuilderSymbol /\ candle.timeframe = timeframe
    THEN update(h.current_candle, timeframe, candle)
    ELSE [current_candle |-> h.current_candle, returned |-> NoCandle]

\* "self.candle_history[symbol][timeframe].append(complete_candle)".
history_append(h, complete_candle) ==
    [h EXCEPT !.candle_history = Append(@, complete_candle)]

\* DataFeed._on_candle_update, run by one thread from start to end.
on_candle_update(h, candle, faulty, adds, descending) ==
    LET built == builder_update(h, candle)
        complete_candle == built.returned
        appended == IF complete_candle = NoCandle
                    THEN [h EXCEPT !.current_candle = built.current_candle]
                    ELSE history_append([h EXCEPT !.current_candle = built.current_candle],
                                        complete_candle)
        rest(passed) ==
            LET checked == IF passed.propagated
                           THEN [level_calls |-> <<>>, propagated |-> TRUE]
                           ELSE check_levels(passed.hub, candle, faulty, descending)
            IN  [hub |-> passed.hub, complete_candle |-> complete_candle,
                 before_pass |-> appended, candle_calls |-> passed.candle_calls,
                 level_calls |-> checked.level_calls, propagated |-> checked.propagated]
    IN  rest(IF complete_candle = NoCandle
             THEN [hub |-> appended, candle_calls |-> <<>>, propagated |-> FALSE]
             ELSE notify_candle(appended, 1, complete_candle, faulty, adds, <<>>))

\* ------------------------------------------------------------------- Init
\* RiskManager.__init__ and the trade tracking of BaseStrategy.__init__.
InitLedger ==
    /\ today = 1
    /\ current_equity = None
    /\ trades = <<>>
    /\ trades_by_date = [d \in Days |-> <<>>]
    /\ active_trades = [sym \in Symbols |-> 0]
    /\ completed_trades = <<>>
    /\ orders = 0
    /\ ret = [op |-> "none"]

\* The tracking dicts of the strategy __init__ methods.
InitTracking ==
    /\ opening_ranges = [sym \in Symbols |-> NoRange]
    /\ previous_day_levels = [sym \in Symbols |-> NoLevels]
    /\ order_blocks = [sym \in Symbols |-> <<>>]
    /\ level_objects = [sym \in Symbols |-> <<>>]
    /\ breakouts = [sym \in Symbols |-> NoBreakouts]

\* CandleBuilder.__init__, but for the timeframe.
InitBuilder ==
    /\ current_candle = NoCandle
    /\ emitted = <<>>
    /\ constituents = <<>>

\* DataFeed.__init__ for the key (BuilderSymbol, timeframe), no strategy started,
\* no thread in the update handler.
InitHub ==
    /\ candle_history = <<>>
    /\ candle_callbacks = <<>>
    /\ level_callbacks = <<>>
    /\ price_levels = {}
    /\ is_running = FALSE
    /\ pc = [t \in Threads |-> "idle"]
    /\ local = [t \in Threads |-> NoLocal]

\* The ledger and the Risk Engine with no strategy driving them.
Init ==
    /\ InitLedger
    /\ timeframe = 5
    /\ InitBuilder
    /\ InitHub
    /\ max_daily_profit \in {None, 1}
    /\ variant = "none"
    /\ confirmation_candles = 1
    /\ InitTracking
    /\ retests = [sym \in Symbols |-> NoRetests]

\* One strategy object of one of the three classes, over the default Risk
\* Engine.
InitStrategy ==
    /\ InitLedger
    /\ timeframe = 5
    /\ InitBuilder
    /\ InitHub
    /\ max_daily_profit = None
    /\ variant \in {"orb", "pdh", "ob"}
    /\ confirmation_candles \in ConfirmationCandles
    /\ InitTracking
    /\ retests = [sym \in Symbols |-> IF variant = "ob" THEN <<>> ELSE NoRetests]

\* ---------------------------------------------------------------- actions
\* The clock passes midnight.
NextDay ==
    /\ today < MaxDay
    /\ today' = today + 1
    /\ ret' = [op |-> "none"]
    /\ UNCHANGED <<current_equity, max_daily_profit, trades, trades_by_date,
                   active_trades, completed_trades, orders, stratvars>>

\* RiskManager.set_account_equity.
SetAccountEquity ==
    \E equity \in Equities :
        /\ current_equity' = equity
        /\ ret' = [op |-> "none"]
        /\ UNCHANGED <<today, max_daily_profit, trades, trades_by_date,
                       active_trades, completed_trades, orders, stratvars>>

\* A caller asks RiskManager.calculate_position_size.
CalculatePositionSize ==
    \E entry_price \in SizingPrices, stop_loss \in SizingPrices,
       max_contracts \in {None, 1, 2, 3}, multiplier \in {1, 50} :
        /\ ret' = [op |-> "calculate_position_size",
                   max_contracts |-> max_contracts,
                   entry_price |-> entry_price, stop_loss |-> stop_loss,
                   multiplier |-> multiplier,
                   result |-> calculate_position_size(entry_price, stop_loss,
                                                      max_contracts, multiplier)]
        /\ UNCHANGED <<today, current_equity, max_daily_profit, trades,
                       trades_by_date, active_trades, completed_trades, orders,
                       stratvars>>

\* A caller asks RiskManager.can_place_trade.
CanPlaceTrade ==
    \E risk_amount \in RiskAmounts :
        /\ ret' = [op |-> "can_place_trade", risk_amount |-> risk_amount,
                   result |-> can_place_trade(Cur, risk_amount)]
        /\ UNCHANGED <<today, current_equity, max_daily_profit, trades,
                       trades_by_date, active_trades, completed_trades, orders,
                       stratvars>>

\* A caller (a strategy's entry check, or the host) calls create_trade.
\* ret.place is the broker's answer ("none" when the broker was not asked).
CreateTrade ==
    \E symbol \in Symbols, q \in TradeRequests,
       allowed \in BOOLEAN, place \in {"fail", "ok", "ok_nodetails"} :
        LET r == create_trade(Cur, symbol, q.direction, q.entry_price, q.stop_loss,
                              q.take_profit, allowed, place)
        IN  /\ Len(r.state.trades) <= MaxTrades
            /\ Commit(r.state)
            /\ ret' = [op |-> "create_trade", symbol |-> symbol,
                       allowed |-> allowed,
                       had_active |-> active_trades[symbol] # 0,
                       raised |-> r.raised, trade |-> r.trade,
                       ordered |-> r.ordered, registered |-> r.registered,
                       place |-> IF r.ordered THEN place ELSE "none",
                       checked |-> r.checked, can_place |-> r.can_place,
                       risk_amount |-> r.risk_amount]
            /\ UNCHANGED <<today, current_equity, max_daily_profit, stratvars>>

\* A caller calls close_trade (a manual close at any price).  ret.refused:
\* the broker was asked to close the position and reported failure.
CloseTrade ==
    \E symbol \in Symbols, exit_price \in ExitPrices, closed \in BOOLEAN :
        LET r == close_trade(Cur, symbol, exit_price, closed)
        IN  /\ Commit(r.state)
            /\ ret' = [op |-> "close_trade", symbol |-> symbol, trade |-> r.trade,
                       refused |-> active_trades[symbol] # 0 /\ ~closed]
            /\ UNCHANGED <<today, current_equity, max_daily_profit, stratvars>>

\* Exit prices below, at and above the entry price of the TradeRequests.
EntryRelativeExits == {P(-10), P(0), P(10)}

\* A caller calls close_trade at a price that loses, breaks even or wins.
CloseTradeAt ==
    \E symbol \in Symbols, exit_price \in EntryRelativeExits, closed \in BOOLEAN :
        LET r == close_trade(Cur, symbol, exit_price, closed)
        IN  /\ Commit(r.state)
            /\ ret' = [op |-> "close_trade", symbol |-> symbol, trade |-> r.trade,
                       refused |-> active_trades[symbol] # 0 /\ ~closed]
            /\ UNCHANGED <<today, current_equity, max_daily_profit, stratvars>>

\* Any sequence of create_trade and close_trade calls.
NextCloses ==
    \/ CreateTrade
    \/ CloseTradeAt

SpecCloses == Init /\ [][NextCloses]_vars

\* The trade ledger and the Risk Engine under direct calls.
Next ==
    \/ NextDay
    \/ SetAccountEquity
    \/ CanPlaceTrade
    \/ CreateTrade
    \/ CloseTrade

Spec == Init /\ [][Next]_vars

\* The number of partial exits recorded on the trades ts.
RECURSIVE PartialExitCount(_)
PartialExitCount(ts) ==
    IF ts = <<>> THEN 0 ELSE Len(Head(ts).partial_exits) + PartialExitCount(Tail(ts))

\* A caller holding a Trade object calls its add_partial_exit.
AddPartialExit ==
    \E id \in 1..Len(trades), price \in PartialPrices, quantity \in PartialQuantities :
        /\ PartialExitCount(trades) < MaxPartialExits
        /\ trades' = [trades EXCEPT ![id] = add_partial_exit(@, price, quantity)]
        /\ ret' = [op |-> "add_partial_exit", trade |-> id, quantity |-> quantity]
        /\ UNCHANGED <<today, current_equity, max_daily_profit, trades_by_date,
                       active_trades, completed_trades, orders, stratvars>>

\* The trade ledger with partial exits recorded on its trades.
NextPartialExits ==
    \/ CreateTrade
    \/ AddPartialExit
    \/ CloseTrade

SpecPartialExits == Init /\ [][NextPartialExits]_vars

\* calculate_position_size as a function of its arguments and the equity.
NextSizing ==
    \/ SetAccountEquity
    \/ CalculatePositionSize

SpecSizing == Init /\ [][NextSizing]_vars

\* ------------------------------------------------------ strategy handlers
\* Answers of get_htf_trend (None, for too little history, vetoes nothing
\* and acts as "UP" does for a long and "DOWN" for a short).
HtfTrends == {"UP", "DOWN"}

\* Every retest record holds at most MaxCandles candles.
RetestsWithinBound(st, symbol) ==
    \A k \in DOMAIN st.retests[symbol] : Len(st.retests[symbol][k].candles) <= MaxCandles

\* The data feed delivers an execution-timeframe candle to on_candle; r is
\* what the handler did.
DeliverCandleWithin(r, symbol, candle, entries) ==
    /\ Len(r.state.ledger.trades) <= entries
    /\ RetestsWithinBound(r.state, symbol)
    /\ CommitStrategy(r.state)
    /\ ret' = [op |-> "on_candle", symbol |-> symbol, candle |-> candle,
               confirmed |-> r.confirmed, cancelled |-> r.cancelled,
               entered |-> r.entered, request |-> r.request, raised |-> r.raised,
               exit_trade |-> r.exit_trade, close_failed |-> r.close_failed]
    /\ UNCHANGED <<today, current_equity, max_daily_profit, variant, confirmation_candles,
                   buildervars, hubvars>>

DeliverCandle(r, symbol, candle) == DeliverCandleWithin(r, symbol, candle, MaxEntries)

\* A handler other than on_candle: st is the state it leaves, r what is
\* kept of the call.
Deliver(st, r) ==
    /\ CommitStrategy(st)
    /\ ret' = r
    /\ UNCHANGED <<today, current_equity, max_daily_profit, variant, confirmation_candles,
                   buildervars, hubvars>>

\* ORBStrategy.on_orb_candle.  The candle that identifies the opening range
\* is OpeningCandle.
ORBOnOrbCandle ==
    /\ variant = "orb"
    /\ \E symbol \in Symbols, candle \in Candles \cup {OpeningCandle}, is_opening \in BOOLEAN :
        /\ (is_opening /\ ~opening_ranges[symbol].identified) => candle = OpeningCandle
        /\ Deliver(on_orb_candle(CurStrategy, symbol, candle, is_opening),
                   [op |-> "on_orb_candle", symbol |-> symbol, candle |-> candle,
                    is_opening |-> is_opening])

\* PDHPDLStrategy._on_daily_candle.
PDHOnDailyCandle ==
    /\ variant = "pdh"
    /\ \E symbol \in Symbols, history \in DailyHistories :
        Deliver(on_daily_candle(CurStrategy, symbol, history),
                [op |-> "on_daily_candle", symbol |-> symbol])

\* The price crosses a watched level of the symbol and the data feed calls
\* the level callbacks add_level registered (ORB and PDH/PDL classes).
OnLevelCross ==
    /\ variant \in {"orb", "pdh"}
    /\ \E symbol \in Symbols :
        /\ \E i \in 1..Len(level_objects[symbol]) : level_objects[symbol][i].registered
        /\ Deliver(level_crossed(CurStrategy, symbol, 1),
                   [op |-> "on_level_cross", symbol |-> symbol])

\* ORBStrategy.on_candle.
ORBOnCandle ==
    /\ variant = "orb"
    /\ \E symbol \in Symbols, candle \in Candles, allowed \in BOOLEAN,
          htf_trend \in HtfTrends, place \in {"fail", "ok"}, closed \in BOOLEAN :
        DeliverCandle(orb_on_candle(CurStrategy, symbol, candle, allowed, htf_trend,
                                    place, closed),
                      symbol, candle)

\* PDHPDLStrategy.on_candle.
PDHOnCandle ==
    /\ variant = "pdh"
    /\ \E symbol \in Symbols, candle \in Candles, allowed \in BOOLEAN,
          htf_trend \in HtfTrends, place \in {"fail", "ok"}, closed \in BOOLEAN :
        DeliverCandle(pdh_on_candle(CurStrategy, symbol, candle, allowed, htf_trend,
                                    place, closed),
                      symbol, candle)

\* OrderBlockStrategy.add_manual_order_block.
OBAddManualOrderBlock ==
    /\ variant = "ob"
    /\ \E symbol \in Symbols, q \in OrderBlockRequests :
        /\ Len(order_blocks[symbol]) < MaxBlocks
        /\ Deliver(add_manual_order_block(CurStrategy, symbol, q), [op |-> "none"])

\* The price crosses a watched level of the symbol and the data feed calls
\* the level callbacks of the order-block levels.
OBOnLevelCross ==
    /\ variant = "ob"
    /\ \E symbol \in Symbols :
        /\ order_blocks[symbol] # <<>>
        /\ Deliver(ob_level_crossed(CurStrategy, symbol, 1),
                   [op |-> "on_level_cross", symbol |-> symbol])

\* OrderBlockStrategy.on_candle.
OBOnCandle ==
    /\ variant = "ob"
    /\ \E symbol \in Symbols, candle \in Candles, allowed \in BOOLEAN,
          htf_trend \in HtfTrends, place \in {"fail", "ok"}, closed \in BOOLEAN :
        DeliverCandle(ob_on_candle(CurStrategy, symbol, candle, allowed, htf_trend,
                                   place, closed),
                      symbol, candle)

\* OrderBlockStrategy._on_execution_candle: the periodic re-scan, then
\* on_candle.
OBOnExecutionCandle ==
    /\ variant = "ob"
    /\ \E symbol \in Symbols, candle \in RescanCandles, rescan \in BOOLEAN :
       \E candles \in IF rescan THEN ScanHistories ELSE {ShortHistory},
          allowed \in BOOLEAN, htf_trend \in HtfTrends,
          place \in {"fail", "ok"}, closed \in BOOLEAN :
        /\ rescan => Len(identify_order_blocks(CurStrategy, symbol, candles)
                             .order_blocks[symbol]) <= MaxBlocks
        /\ DeliverCandleWithin(on_execution_candle(CurStrategy, symbol, candle, rescan,
                                                   candles, allowed, htf_trend, place, closed),
                               symbol, candle, MaxRescanEntries)

\* A strategy object driven by the data feed.
NextStrategy ==
    \/ ORBOnOrbCandle
    \/ PDHOnDailyCandle
    \/ OnLevelCross
    \/ ORBOnCandle
    \/ PDHOnCandle
    \/ OBAddManualOrderBlock
    \/ OBOnLevelCross
    \/ OBOnCandle

SpecStrategy == InitStrategy /\ [][NextStrategy]_vars

\* The anchors of a strategy object over several days: the handlers that
\* build anchors and record breakouts, and the clock.
NextDays ==
    \/ NextDay
    \/ ORBOnOrbCandle
    \/ PDHOnDailyCandle
    \/ OnLevelCross

SpecDays == InitStrategy /\ [][NextDays]_vars

\* The inputs of the bucket an input falls in, since an input opened it.
SameBucket(cs, candle) ==
    IF /\ cs # <<>>
       /\ timeframe_start(cs[1].timestamp, timeframe)
              = timeframe_start(candle.timestamp, timeframe)
    THEN Append(cs, candle)
    ELSE <<candle>>

\* A sub-interval candle is fed to the builder.
BuilderUpdate ==
    \E candle \in SubCandles :
        LET r == update(current_candle, timeframe, candle)
        IN  /\ Len(emitted) + (IF r.returned = NoCandle THEN 0 ELSE 1) <= MaxEmitted
            /\ r.current_candle # NoCandle => r.current_candle.volume <= MaxMerged
            /\ current_candle' = r.current_candle
            /\ emitted' = IF r.returned = NoCandle THEN emitted
                          ELSE Append(emitted, r.returned.timestamp)
            /\ constituents' = SameBucket(constituents, candle)
            /\ ret' = [op |-> "update", candle |-> candle, returned |-> r.returned]
            /\ UNCHANGED <<today, current_equity, max_daily_profit, trades, trades_by_date,
                           active_trades, completed_trades, orders, variant,
                           confirmation_candles, opening_ranges, previous_day_levels,
                           order_blocks, level_objects, breakouts, retests, timeframe,
                           hubvars>>

\* Any candle is handed to update.  The inputs recorded per bucket are
\* kept for sub-interval inputs of the builder's symbol; an input that is
\* dropped leaves them, any other input that sets or clears the current
\* candle clears them.
BuilderFeed ==
    \E candle \in InputCandles(timeframe) :
        LET r == update(current_candle, timeframe, candle)
        IN  /\ Len(emitted) + (IF r.returned = NoCandle THEN 0 ELSE 1) <= MaxEmitted
            /\ r.current_candle # NoCandle => r.current_candle.volume <= MaxMerged
            /\ current_candle' = r.current_candle
            /\ emitted' = IF r.returned = NoCandle THEN emitted
                          ELSE Append(emitted, r.returned.timestamp)
            /\ constituents' =
                  IF candle.symbol = BuilderSymbol /\ candle.timeframe < timeframe
                  THEN SameBucket(constituents, candle)
                  ELSE IF r.current_candle = current_candle THEN constituents
                  ELSE <<>>
            /\ ret' = [op |-> "update", candle |-> candle, returned |-> r.returned,
                       had_current |-> current_candle # NoCandle]
            /\ UNCHANGED <<today, current_equity, max_daily_profit, trades, trades_by_date,
                           active_trades, completed_trades, orders, variant,
                           confirmation_candles, opening_ranges, previous_day_levels,
                           order_blocks, level_objects, breakouts, retests, timeframe,
                           hubvars>>

\* A CandleBuilder of one of the timeframes, fed one-minute candles in any
\* order.
InitCandleBuilder ==
    /\ InitLedger
    /\ max_daily_profit = None
    /\ variant = "none"
    /\ confirmation_candles = 1
    /\ InitTracking
    /\ retests = [sym \in Symbols |-> NoRetests]
    /\ timeframe \in Timeframes
    /\ InitBuilder
    /\ InitHub

SpecCandleBuilder == InitCandleBuilder /\ [][BuilderUpdate]_vars

\* A CandleBuilder handed candles of every kind.
SpecBuilderInputs == InitCandleBuilder /\ [][BuilderFeed]_vars

\* The state _on_candle_update and the registration methods leave.
CommitHub(h) ==
    /\ current_candle' = h.current_candle
    /\ candle_history' = h.candle_history
    /\ candle_callbacks' = h.candle_callbacks
    /\ level_callbacks' = h.level_callbacks
    /\ price_levels' = h.price_levels

\* What no method of the DataFeed or of the registration of a strategy writes.
HubUnchanged ==
    UNCHANGED <<today, current_equity, max_daily_profit, trades, trades_by_date,
                active_trades, completed_trades, orders, variant, confirmation_candles,
                opening_ranges, previous_day_levels, order_blocks, level_objects,
                breakouts, retests, timeframe, emitted, constituents>>

\* BaseStrategy.start of an ORB strategy whose orb_timeframe is its
\* execution_timeframe, without the higher-timeframe filter: on_candle is
\* registered, then initialize registers on_orb_candle.
StrategyStart ==
    /\ ~is_running
    /\ is_running' = TRUE
    /\ CommitHub(add_candle_callback(add_candle_callback(CurHub, Callback("on_candle", None)),
                                     Callback("on_orb_candle", None)))
    /\ ret' = [op |-> "start"]
    /\ HubUnchanged
    /\ UNCHANGED <<pc, local>>

\* BaseStrategy.stop of that strategy: on_candle is unregistered, then
\* cleanup unregisters on_orb_candle.
StrategyStop ==
    /\ is_running
    /\ is_running' = FALSE
    /\ CommitHub(remove_candle_callback(
                     remove_candle_callback(CurHub, Callback("on_candle", None)),
                     Callback("on_orb_candle", None)))
    /\ ret' = [op |-> "stop"]
    /\ HubUnchanged
    /\ UNCHANGED <<pc, local>>

\* The callback lists and the watched levels of the feed.
Registrations(h) ==
    [candle_callbacks |-> h.candle_callbacks, level_callbacks |-> h.level_callbacks,
     price_levels |-> h.price_levels]

\* The broker hands a candle to DataFeed._on_candle_update, which runs to
\* its end.  Kept of the call: the callbacks called, in order, and the
\* registrations when the pass over the candle callbacks started and when
\* its last callback returned.
OnCandleUpdate ==
    \E candle \in HubCandles(timeframe), faulty \in Faults,
       adds \in SUBSET HubLevels, descending \in BOOLEAN :
        LET r == on_candle_update(CurHub, candle, faulty, adds, descending)
        IN  /\ Len(r.hub.candle_history) <= MaxHistory
            /\ Len(r.hub.level_callbacks) <= MaxLevelCallbacks
            /\ CommitHub(r.hub)
            /\ ret' = [op |-> "on_candle_update", candle |-> candle,
                       complete_candle |-> r.complete_candle,
                       candle_calls |-> r.candle_calls, level_calls |-> r.level_calls,
                       propagated |-> r.propagated,
                       pass_start |-> Registrations(r.before_pass),
                       pass_end |-> Registrations(r.hub)]
            /\ HubUnchanged
            /\ UNCHANGED <<is_running, pc, local>>

\* A DataFeed with one strategy, every update run to its end before the next.
NextHub ==
    \/ StrategyStart
    \/ StrategyStop
    \/ OnCandleUpdate

SpecHub == InitCandleBuilder /\ [][NextHub]_vars

\* The complete candles some thread is about to append.
Pending == Cardinality({t \in Threads : pc[t] = "append"})

\* Thread t enters _on_candle_update with a candle and runs "Update candle
\* builder" up to the test of complete_candle.
ThreadUpdate(t) ==
    /\ pc[t] = "idle"
    /\ \E candle \in HubCandles(timeframe) :
        LET built == builder_update(CurHub, candle)
        IN  /\ built.returned # NoCandle => Len(candle_history) + Pending < MaxHistory
            /\ current_candle' = built.current_candle
            /\ local' = [local EXCEPT ![t] = [@ EXCEPT !.candle = candle,
                                                       !.complete_candle = built.returned]]
            /\ pc' = [pc EXCEPT ![t] = IF built.returned = NoCandle THEN "levels"
                                       ELSE "append"]
            /\ ret' = [op |-> "update", thread |-> t]
    /\ HubUnchanged
    /\ UNCHANGED <<candle_history, candle_callbacks, level_callbacks, price_levels,
                   is_running>>

\* Thread t appends its complete candle to the history.
ThreadAppend(t) ==
    /\ pc[t] = "append"
    /\ CommitHub(history_append(CurHub, local[t].complete_candle))
    /\ pc' = [pc EXCEPT ![t] = "notify"]
    /\ ret' = [op |-> "append", thread |-> t]
    /\ HubUnchanged
    /\ UNCHANGED <<is_running, local>>

\* Thread t calls the candle callbacks.
ThreadNotify(t) ==
    /\ pc[t] = "notify"
    /\ \E faulty \in Faults, adds \in SUBSET HubLevels :
        LET r == notify_candle(CurHub, 1, local[t].complete_candle, faulty, adds, <<>>)
        IN  /\ Len(r.hub.level_callbacks) <= MaxLevelCallbacks
            /\ CommitHub(r.hub)
    /\ pc' = [pc EXCEPT ![t] = "levels"]
    /\ ret' = [op |-> "notify", thread |-> t]
    /\ HubUnchanged
    /\ UNCHANGED <<is_running, local>>

\* Thread t checks the price levels and leaves the handler.
ThreadLevels(t) ==
    /\ pc[t] = "levels"
    /\ \E faulty \in Faults, descending \in BOOLEAN :
        ret' = [op |-> "levels", thread |-> t,
                level_calls |-> check_levels(CurHub, local[t].candle, faulty,
                                             descending).level_calls]
    /\ pc' = [pc EXCEPT ![t] = "idle"]
    /\ local' = [local EXCEPT ![t] = NoLocal]
    /\ HubUnchanged
    /\ UNCHANGED <<current_candle, candle_history, candle_callbacks, level_callbacks,
                   price_levels, is_running>>

\* A DataFeed whose update handler is entered by two threads, each running
\* it statement by statement; the DataFeed takes no lock.
NextHubThreads ==
    \/ StrategyStart
    \/ StrategyStop
    \/ \E t \in Threads : ThreadUpdate(t)
    \/ \E t \in Threads : ThreadAppend(t)
    \/ \E t \in Threads : ThreadNotify(t)
    \/ \E t \in Threads : ThreadLevels(t)

SpecHubThreads == InitCandleBuilder /\ [][NextHubThreads]_vars

\* ------------------------------------------------------------------- Level
\* Level.__init__: zone_high and zone_low default to the price, and are
\* otherwise taken as given.
ZonedLevel(price, zone_high, zone_low) ==
    [price |-> price,
     zone_high |-> IF zone_high # None THEN zone_high ELSE price,
     zone_low |-> IF zone_low # None THEN zone_low ELSE price]

\* Level.is_zone.
is_zone(level) == level.zone_high # level.zone_low

\* Level.is_broken_above.
is_broken_above(level, price, threshold) ==
    IF is_zone(level) THEN price > level.zone_high + threshold
    ELSE price > level.price + threshold

\* Level.is_broken_below.
is_broken_below(level, price, threshold) ==
    IF is_zone(level) THEN price < level.zone_low - threshold
    ELSE price < level.price - threshold

\* The prices, zone bounds and thresholds handed to a Level.
LevelPrices == {P(k) : k \in -2..2}
ZoneBounds == {None} \cup LevelPrices
Thresholds == {0, 1000, 2000}

\* A Level is constructed, as BaseStrategy and
\* OrderBlockStrategy.add_manual_order_block do from their arguments.
LevelNew ==
    /\ \E price \in LevelPrices, zone_high \in ZoneBounds, zone_low \in ZoneBounds :
        ret' = [op |-> "Level", level |-> ZonedLevel(price, zone_high, zone_low)]
    /\ UNCHANGED <<today, current_equity, max_daily_profit, trades, trades_by_date,
                   active_trades, completed_trades, orders, stratvars>>

\* Both break predicates of the last Level are asked about one price and one
\* threshold.
LevelIsBroken ==
    /\ ret.op \in {"Level", "is_broken"}
    /\ \E price \in LevelPrices, threshold \in Thresholds :
        ret' = [op |-> "is_broken", level |-> ret.level, price |-> price,
                threshold |-> threshold,
                above |-> is_broken_above(ret.level, price, threshold),
                below |-> is_broken_below(ret.level, price, threshold)]
    /\ UNCHANGED <<today, current_equity, max_daily_profit, trades, trades_by_date,
                   active_trades, completed_trades, orders, stratvars>>

NextLevels ==
    \/ LevelNew
    \/ LevelIsBroken

SpecLevels == InitCandleBuilder /\ [][NextLevels]_vars

\* ------------------------------------------------------ concurrent entries
\* Thread t, delivering for its own symbol (or strategy) over the shared
\* RiskManager, enters create_trade and runs it up to "if not can_place":
\* is_trading_allowed, the active-trade test, calculate_position_size and
\* can_place_trade.
EntryCheck(t) ==
    /\ pc[t] = "idle"
    /\ \E q \in TradeRequests, allowed \in BOOLEAN :
        LET ps == calculate_position_size(q.entry_price, q.stop_loss, position_size, 1)
            cp == can_place_trade(Cur, ps.risk_amount)
            returns == \/ ~allowed
                       \/ local[t].active # 0
                       \/ ps.raised
                       \/ rejected_by_risk(cp)
        IN  /\ pc' = [pc EXCEPT ![t] = IF returns THEN "idle" ELSE "register"]
            /\ local' = [local EXCEPT ![t] =
                            IF returns THEN @
                            ELSE [@ EXCEPT !.request =
                                     [direction |-> q.direction,
                                      entry_price |-> q.entry_price,
                                      stop_loss |-> q.stop_loss,
                                      take_profit |-> q.take_profit,
                                      quantity |-> ps.size]]]
            /\ ret' = [op |-> "can_place_trade", thread |-> t, returned |-> returns]
    /\ UNCHANGED <<today, current_equity, max_daily_profit, trades, trades_by_date,
                   active_trades, completed_trades, orders, variant, confirmation_candles,
                   opening_ranges, previous_day_levels, order_blocks, level_objects,
                   breakouts, retests, buildervars, candle_history, candle_callbacks,
                   level_callbacks, price_levels, is_running>>

\* Thread t builds the Trade and registers it with the RiskManager.
EntryRegister(t) ==
    /\ pc[t] = "register"
    /\ Len(trades) < MaxConcurrentTrades
    /\ LET q == local[t].request
           id == Len(trades) + 1
           s1 == register_trade(
                     [Cur EXCEPT !.trades = Append(@, Trade("SPY", q.direction, q.entry_price,
                                                            q.stop_loss, q.take_profit,
                                                            q.quantity, today))], id)
       IN  /\ Commit(s1)
           /\ local' = [local EXCEPT ![t] = [@ EXCEPT !.trade = id]]
    /\ pc' = [pc EXCEPT ![t] = "order"]
    /\ ret' = [op |-> "register_trade", thread |-> t]
    /\ UNCHANGED <<today, current_equity, max_daily_profit, variant, confirmation_candles,
                   opening_ranges, previous_day_levels, order_blocks, level_objects,
                   breakouts, retests, buildervars, candle_history, candle_callbacks,
                   level_callbacks, price_levels, is_running>>

\* Thread t places the order and leaves create_trade.
EntryOrder(t) ==
    /\ pc[t] = "order"
    /\ \E place \in {"fail", "ok", "ok_nodetails"} :
        LET id == local[t].trade
            s2 == [Cur EXCEPT !.orders = @ + 1]
        IN  /\ Commit(IF order_failed(place)
                      THEN update_trade([s2 EXCEPT !.trades[id].status = "REJECTED"], id)
                      ELSE [s2 EXCEPT !.trades[id].status =
                                          IF place = "ok" THEN "OPEN" ELSE @])
            /\ local' = [local EXCEPT ![t] =
                            [@ EXCEPT !.request = NoRequest, !.trade = 0,
                                      !.active = IF order_failed(place) THEN 0 ELSE id]]
    /\ pc' = [pc EXCEPT ![t] = "idle"]
    /\ ret' = [op |-> "place_market_order", thread |-> t]
    /\ UNCHANGED <<today, current_equity, max_daily_profit, variant, confirmation_candles,
                   opening_ranges, previous_day_levels, order_blocks, level_objects,
                   breakouts, retests, buildervars, candle_history, candle_callbacks,
                   level_callbacks, price_levels, is_running>>

\* create_trade entered by two threads over one RiskManager, each running it
\* statement by statement; neither the strategy nor the RiskManager takes a
\* lock.
NextEntries ==
    \/ \E t \in Threads : EntryCheck(t)
    \/ \E t \in Threads : EntryRegister(t)
    \/ \E t \in Threads : EntryOrder(t)

SpecEntries == Init /\ [][NextEntries]_vars

\* The data feed dispatches a complete execution-timeframe candle to the
\* candle callbacks of an order-block strategy started through start(), in
\* the order they were registered: on_candle (BaseStrategy.start), then
\* _on_execution_candle (OrderBlockStrategy.initialize).  An exception that
\* leaves the first is caught by the feed, which calls the second.
OBDispatchExecutionCandle ==
    /\ variant = "ob"
    /\ \E symbol \in Symbols, candle \in RescanCandles, rescan \in BOOLEAN :
       \E candles \in IF rescan THEN ScanHistories ELSE {ShortHistory},
          allowed \in BOOLEAN, htf_trend \in HtfTrends,
          place \in {"fail", "ok"}, closed \in BOOLEAN :
        LET second(first) ==
                on_execution_candle(first.state, symbol, candle, rescan, candles,
                                    allowed, htf_trend, place, closed)
            r == second(ob_on_candle(CurStrategy, symbol, candle, allowed, htf_trend,
                                     place, closed))
        IN  /\ Len(r.state.order_blocks[symbol]) <= MaxBlocks
            /\ Len(r.state.ledger.trades) <= MaxRescanEntries
            /\ RetestsWithinBound(r.state, symbol)
            /\ CommitStrategy(r.state)
            /\ ret' = [op |-> "dispatch", symbol |-> symbol, candle |-> candle]
            /\ UNCHANGED <<today, current_equity, max_daily_profit, variant,
                           confirmation_candles, buildervars, hubvars>>

\* An order-block strategy started through start() and fed by the data feed.
NextDispatch ==
    \/ OBAddManualOrderBlock
    \/ OBDispatchExecutionCandle

SpecDispatch == InitStrategy /\ [][NextDispatch]_vars

\* An order-block strategy whose levels come from the scans alone.
NextRescan ==
    \/ OBOnExecutionCandle
    \/ OBOnLevelCross

SpecRescan == InitStrategy /\ [][NextRescan]_vars

TypeOK ==
    /\ today \in Days
    /\ current_equity \in Equities \cup {None}
    /\ Len(trades) <= MaxTrades
    /\ \A sym \in Symbols : active_trades[sym] \in 0..Len(trades)
\* ----------------------------------------------------------------- claims
LedgerUnchanged ==
    /\ trades' = trades
    /\ trades_by_date' = trades_by_date
    /\ active_trades' = active_trades
    /\ completed_trades' = completed_trades
    /\ orders' = orders

\* The anchor price of one side (ORB and PDH/PDL classes).
AnchorPrice(symbol, side) ==
    IF side = "high" THEN anchors(CurStrategy, symbol).high_level
    ELSE anchors(CurStrategy, symbol).low_level

\* The candle closed beyond the anchor of retest record k in the breakout
\* direction: above the high anchor or below the low anchor; for an order
\* block, above the zone of a bullish level or below the zone of a bearish one.
ClosedBeyondAnchor(symbol, k, candle) ==
    IF variant = "ob"
    THEN \E i \in 1..Len(order_blocks[symbol]) :
            LET level == order_blocks[symbol][i]
            IN  /\ level.price = k
                /\ IF level.level_type = "BULLISH_ORDER_BLOCK"
                   THEN candle.close_price > level.zone_high
                   ELSE candle.close_price < level.zone_low
    ELSE IF k = "high" THEN candle.close_price > AnchorPrice(symbol, "high")
    ELSE candle.close_price < AnchorPrice(symbol, "low")

\* C1: a retest record becomes confirmed (in the retest check of a candle, or
\* in any other step) only with at least confirmation_candles accumulated
\* candles of which the most recent closed beyond the anchor in the breakout
\* direction; otherwise it stays unconfirmed.
C1_RetestConfirmation ==
    [][\A symbol \in Symbols :
         \A k \in NewlyConfirmed(retests[symbol], retests'[symbol]) \cup
                  (IF ret'.op = "on_candle" /\ ret'.symbol = symbol
                   THEN ret'.confirmed ELSE {}) :
            LET candles == retests'[symbol][k].candles
            IN  /\ Len(candles) >= confirmation_candles
                /\ ClosedBeyondAnchor(symbol, k, candles[Len(candles)])]_vars

\* With confirmation_candles = 2 the retest check confirmed the retest of the
\* opening range high on its second accumulated candle.
C1_Witness ==
    /\ variant = "orb"
    /\ confirmation_candles = 2
    /\ ret.op = "on_candle"
    /\ "high" \in ret.confirmed
    /\ Len(retests[ret.symbol].high.candles) = 2

\* The candle's extreme is more than 2 x retest_threshold x anchor on the
\* wrong side of the anchor: its low below the high anchor, its high above
\* the low anchor.
FarOnWrongSide(candle, side, level) ==
    IF side = "high"
    THEN (level - candle.low_price) * 10 > 2 * x10(level, retest_threshold)
    ELSE (candle.high_price - level) * 10 > 2 * x10(level, retest_threshold)

\* C2 (ORB and PDH/PDL): when a candle arrives while a retest is in progress
\* and unconfirmed and the candle's extreme is more than 2 x retest_threshold
\* on the wrong side of the anchor, then after the candle the retest is not in
\* progress, its candle list is empty and the breakout flag is still set.
C2_RetestCancellation ==
    [][(ret'.op = "on_candle" /\ variant \in {"orb", "pdh"}) =>
         \A side \in {"high", "low"} :
            (/\ retests[ret'.symbol][side].in_progress
             /\ ~retests[ret'.symbol][side].confirmed
             /\ FarOnWrongSide(ret'.candle, side, AnchorPrice(ret'.symbol, side)))
            => (/\ ~retests'[ret'.symbol][side].in_progress
                /\ retests'[ret'.symbol][side].candles = <<>>
                /\ breakouts'[ret'.symbol][side])]_vars

\* A candle far below the previous day high cancelled a retest in progress.
C2_Witness ==
    /\ variant = "pdh"
    /\ ret.op = "on_candle"
    /\ "high" \in ret.cancelled
    /\ FarOnWrongSide(ret.candle, "high", AnchorPrice(ret.symbol, "high"))
    /\ ~retests[ret.symbol].high.in_progress
    /\ breakouts[ret.symbol].high

\* The candle breaches both the stop-loss and the take-profit of the trade.
BreachesBoth(t, candle) ==
    IF t.direction = "LONG"
    THEN candle.low_price <= t.stop_loss /\ candle.high_price >= t.take_profit
    ELSE candle.high_price >= t.stop_loss /\ candle.low_price <= t.take_profit

\* The exit check examined an open trade against a candle that breaches both
\* its stop-loss and its take-profit.
BothBreached ==
    /\ ret.op = "on_candle"
    /\ ret.exit_trade # 0
    /\ BreachesBoth(trades[ret.exit_trade], ret.candle)

\* C3 as stated: whenever a candle breaches both the stop-loss and the
\* take-profit of the open trade, the trade is closed with exit price equal to
\* the stop-loss.
C3_StopBeforeTarget ==
    BothBreached =>
        /\ trades[ret.exit_trade].status = "CLOSED"
        /\ trades[ret.exit_trade].exit_price = trades[ret.exit_trade].stop_loss

\* C3, amended: whenever a candle breaches both the stop-loss and the
\* take-profit of the open trade, then if the broker's close_position succeeds
\* the trade is closed with exit price equal to the stop-loss (not the
\* take-profit) and leaves the active trades; if it fails the trade stays
\* active, not closed and without an exit price.
C3_StopBeforeTargetIfClosed ==
    BothBreached =>
        LET t == trades[ret.exit_trade]
        IN  IF ~ret.close_failed
            THEN /\ t.status = "CLOSED"
                 /\ t.exit_price = t.stop_loss
                 /\ t.exit_price # t.take_profit
                 /\ active_trades[ret.symbol] = 0
            ELSE /\ t.status # "CLOSED"
                 /\ t.exit_price = None
                 /\ active_trades[ret.symbol] = ret.exit_trade

\* A candle breached both levels of an open long and the trade was closed at
\* its stop-loss.
C3_Witness ==
    /\ BothBreached
    /\ ~ret.close_failed
    /\ trades[ret.exit_trade].direction = "LONG"
    /\ trades[ret.exit_trade].status = "CLOSED"
    /\ trades[ret.exit_trade].exit_price = trades[ret.exit_trade].stop_loss

\* C4: a create_trade call for a symbol that already has an active trade
\* returns no trade, places no broker order, registers nothing with the Risk
\* Engine and leaves the active trades (and the rest of the ledger) unchanged.
C4_OneOpenTradePerSymbol ==
    [][(ret'.op = "create_trade" /\ active_trades[ret'.symbol] # 0)
         => (ret'.trade = 0 /\ ~ret'.ordered /\ ~ret'.registered /\ LedgerUnchanged)]_vars

\* A create_trade call made while trading was allowed and the symbol had an
\* active trade.
C4_Witness ==
    /\ ret.op = "create_trade"
    /\ ret.allowed
    /\ ret.had_active
    /\ active_trades[ret.symbol] # 0

\* C5: once the number of trades registered for today has reached
\* max_trades_per_day, every can_place_trade call returns allowed = false with
\* a non-empty reason, whatever the risk amount and the equity.
C5_DailyTradeCeiling ==
    (ret.op = "can_place_trade" /\ Len(trades_by_date[today]) >= max_trades_per_day)
        => (~ret.result.allowed /\ ret.result.reason # "")

\* can_place_trade was asked with exactly max_trades_per_day trades registered
\* today and no equity set (no other test could have rejected).
C5_Witness ==
    /\ ret.op = "can_place_trade"
    /\ Len(trades_by_date[today]) = max_trades_per_day
    /\ current_equity = None
    /\ ~ret.result.allowed

\* C6: with equity set, can_place_trade rejects whenever today's realized P&L
\* is at or below -(equity x max_daily_loss), equality included.
C6_DailyLossCeiling ==
    (/\ ret.op = "can_place_trade"
     /\ current_equity # None
     /\ today_pl(Cur) * 100 <= -(current_equity * max_daily_loss))
        => ~ret.result.allowed

\* C7: with equity set and max_daily_profit configured, can_place_trade
\* rejects whenever today's realized P&L has met or exceeded
\* equity x max_daily_profit, equality included.
C7_DailyProfitCeiling ==
    (/\ ret.op = "can_place_trade"
     /\ current_equity # None
     /\ max_daily_profit # None
     /\ today_pl(Cur) * 100 >= current_equity * max_daily_profit)
        => ~ret.result.allowed

\* C8: with equity set, can_place_trade rejects every request whose risk amount
\* exceeds equity x risk_per_trade, and create_trade sends the broker no order
\* whose computed risk amount exceeds it.
C8_PerTradeRiskGate ==
    /\ (/\ ret.op = "can_place_trade"
        /\ current_equity # None
        /\ ret.risk_amount * 100 > current_equity * risk_per_trade)
           => ~ret.result.allowed
    /\ (/\ ret.op = "create_trade"
        /\ current_equity # None
        /\ ret.checked
        /\ ret.risk_amount * 100 > current_equity * risk_per_trade)
           => (~ret.ordered /\ ret.trade = 0)

\* create_trade computed a size of 0, raised it to the 1-unit minimum, and the
\* resulting risk amount exceeded the limit when no other test rejects.
C8_Witness ==
    /\ ret.op = "create_trade"
    /\ ret.checked
    /\ current_equity # None
    /\ ret.risk_amount * 100 > current_equity * risk_per_trade
    /\ ~day_limit_reached(Cur)
    /\ ~daily_loss_reached(Cur)
    /\ ~daily_profit_reached(Cur)

\* C9: for every entry price, stop price, equity state and max_contracts,
\* calculate_position_size returns a size of at least 1 and at most
\* max_contracts.
C9_PositionSizeBounds ==
    (ret.op = "calculate_position_size" /\ ret.max_contracts # None)
        => (/\ ~ret.result.raised
            /\ ret.result.size >= 1
            /\ ret.result.size <= ret.max_contracts)

\* C10: when can_place_trade answers allowed = false, create_trade registers
\* nothing, places no order, leaves the ledger unchanged and returns no trade.
C10_RiskRejectionRespected ==
    [][(ret'.op = "create_trade" /\ ret'.checked /\ ~ret'.can_place)
         => (ret'.trade = 0 /\ ~ret'.ordered /\ ~ret'.registered /\ LedgerUnchanged)]_vars

\* create_trade asked can_place_trade and was refused.
C10_Witness ==
    /\ ret.op = "create_trade"
    /\ ret.checked
    /\ ~ret.can_place
\* C11: when place_market_order reports failure, the trade create_trade built
\* becomes REJECTED, is not added to the active trades (which stay as they
\* were, and never hold a rejected trade), and create_trade returns None
\* without raising.
C11_BrokerOrderFailure ==
    [][/\ (ret'.op = "create_trade" /\ ret'.place = "fail")
            => /\ Len(trades') = Len(trades) + 1
               /\ trades'[Len(trades')].status = "REJECTED"
               /\ active_trades' = active_trades
               /\ ~ret'.raised
               /\ ret'.trade = 0
       /\ \A sym \in Symbols :
            active_trades'[sym] # 0 => trades'[active_trades'[sym]].status # "REJECTED"]_vars

\* A create_trade call whose order the broker refused.
C11_Witness ==
    /\ ret.op = "create_trade"
    /\ ret.place = "fail"
    /\ trades[Len(trades)].status = "REJECTED"
    /\ active_trades[ret.symbol] = 0

\* The moves of a trade's status the lifecycle allows.
LifecycleMoves ==
    {<<"PENDING", "OPEN">>, <<"PENDING", "REJECTED">>, <<"PENDING", "CANCELLED">>,
     <<"OPEN", "CLOSED">>}

\* C12: over create_trade / close_trade operations the status of a trade only
\* moves pending -> open, pending -> rejected/cancelled or open -> closed (so
\* closed, rejected and cancelled are terminal and a trade is open before it
\* is closed); a trade a call has just built is pending, open or rejected.
C12_TradeLifecycleOrdering ==
    [][/\ \A id \in 1..Len(trades) :
            \/ trades'[id].status = trades[id].status
            \/ <<trades[id].status, trades'[id].status>> \in LifecycleMoves
       /\ \A id \in (Len(trades) + 1)..Len(trades') :
            trades'[id].status \in {"PENDING", "OPEN", "REJECTED"}]_vars

\* C13: in every reachable state every trade whose status is CLOSED has both
\* its exit price and its exit time set.
C13_ClosedTradeHasExit ==
    \A id \in 1..Len(trades) :
        is_closed(trades[id]) =>
            (trades[id].exit_price # None /\ trades[id].exit_time # None)

\* close_trade has closed a trade.
C13_Witness ==
    /\ ret.op = "close_trade"
    /\ ret.trade # 0
    /\ is_closed(trades[ret.trade])
    /\ trades[ret.trade].exit_price \in ExitPrices
    /\ trades[ret.trade].exit_time = today

\* C14: after any sequence of add_partial_exit calls on a trade, the sum of
\* the partially exited quantities does not exceed the trade's quantity.
C14_PartialExitWithinQuantity ==
    \A id \in 1..Len(trades) :
        partial_quantity(trades[id].partial_exits) <= trades[id].quantity

\* The break records of one direction on a Level object.
BreaksIn(level, direction) ==
    {k \in 1..Len(level.breaks) : level.breaks[k].direction = direction}

\* C15: after any sequence of candles and level-crossing events, the break
\* list of each anchor level holds at most one break record per direction.
C15_FirstBreakoutOnly ==
    \A symbol \in Symbols : \A i \in 1..Len(level_objects[symbol]) :
        \A direction \in {"above", "below"} :
            Cardinality(BreaksIn(level_objects[symbol][i], direction)) <= 1

\* The anchor price of one side after the step.
AnchorPriceAfter(symbol, side) ==
    LET a == IF variant = "orb" THEN opening_ranges'[symbol] ELSE previous_day_levels'[symbol]
    IN  IF side = "high" THEN a.high_level ELSE a.low_level

\* C16: the breakout flag of a direction on an anchor becomes true only in
\* a step that handles a candle of the symbol whose close is beyond that
\* anchor by more than breakout_threshold x anchor price in that direction;
\* no other event (a crossing of a watched level included) sets it.
C16_BreakoutRequiresClose ==
    [][\A symbol \in Symbols : \A side \in {"high", "low"} :
          (breakouts'[symbol][side] /\ ~breakouts[symbol][side])
              => /\ ret'.op \in {"on_candle", "on_orb_candle"}
                 /\ ret'.symbol = symbol
                 /\ IF side = "high"
                    THEN breaks_above(ret'.candle, AnchorPriceAfter(symbol, "high"))
                    ELSE breaks_below(ret'.candle, AnchorPriceAfter(symbol, "low"))]_vars

\* The arguments the claim gives for the entry of one side at a candle's
\* close: the stop is the anchor offset by anchor x buffer, the target is
\* the entry offset by ratio x (entry - stop).
ExpectedRequest(symbol, side, candle) ==
    LET anchor == AnchorPrice(symbol, side)
        entry == candle.close_price
        stop == IF side = "high" THEN anchor - x10(anchor, stop_loss_buffer) \div 10
                ELSE anchor + x10(anchor, stop_loss_buffer) \div 10
    IN  Request(IF side = "high" THEN "LONG" ELSE "SHORT", entry, stop,
                entry + take_profit_ratio * (entry - stop), side)

\* C17: with stop type 'level' and target type 'risk_reward', the candle that
\* confirms a long (short) retest makes the strategy request exactly one
\* trade, with entry price the close of that confirming candle, stop-loss
\* strictly below (above) the anchor at anchor -/+ anchor x buffer and
\* take-profit entry + ratio x (entry - stop); a trade is requested on no
\* candle other than the confirming one.
C17_EntryComputation ==
    [][(/\ variant \in {"orb", "pdh"}
        /\ stop_loss_type = "level" /\ take_profit_type = "risk_reward"
        /\ ret'.op = "on_candle")
          => \A side \in {"high", "low"} :
                LET q == ExpectedRequest(ret'.symbol, side, ret'.candle)
                IN  /\ side \in ret'.confirmed
                        => /\ ret'.request = q
                           /\ IF side = "high" THEN q.stop_loss < AnchorPrice(ret'.symbol, side)
                              ELSE q.stop_loss > AnchorPrice(ret'.symbol, side)
                    /\ ret'.request.direction = q.direction => side \in ret'.confirmed]_vars

\* C18: once the order-block strategy has made an entry from a level (the
\* level is inactive), no later candle, re-scans included, makes it request
\* another entry from an order block of that type and price.
C18_ConsumedLevelNoRetrigger ==
    [][(variant = "ob" /\ ret'.op = "on_candle" /\ ret'.request.direction # "NONE")
          => ~\E i \in 1..Len(order_blocks[ret'.symbol]) :
                 LET level == order_blocks[ret'.symbol][i]
                 IN  /\ ~level.is_active
                     /\ level.level_type = ret'.request.level.level_type
                     /\ level.price = ret'.request.level.price]_vars

\* C19: when the session-start candle of a later day arrives after an
\* opening range was identified, the tracking state of the symbol is reset
\* and the anchors are derived again from that candle: afterwards the range
\* is that candle's high and low, identified on this day, and (the candle
\* closing inside its own range) no breakout flag and no retest record is set.
C19_DailyReset ==
    [][\A symbol \in Symbols :
          (/\ variant = "orb"
           /\ ret'.op = "on_orb_candle" /\ ret'.symbol = symbol /\ ret'.is_opening
           /\ opening_ranges[symbol].identified
           /\ opening_ranges[symbol].candle < today)
              => /\ opening_ranges'[symbol] =
                        [identified |-> TRUE, high_level |-> ret'.candle.high_price,
                         low_level |-> ret'.candle.low_price, candle |-> today]
                 /\ breakouts'[symbol] = NoBreakouts
                 /\ retests'[symbol] = NoRetests]_vars

\* C20: the candles a CandleBuilder of interval T returned, whatever the
\* sequence of sub-interval candles fed to it, have start times aligned to T
\* and strictly increasing in the order of emission, so that no bucket is
\* emitted twice, and no two of them cover overlapping time.
C20_AggregatorTiling ==
    /\ \A i \in 1..Len(emitted) : emitted[i] % timeframe = 0
    /\ \A i \in 1..Len(emitted) : \A j \in (i + 1)..Len(emitted) :
          emitted[i] + timeframe <= emitted[j]

\* The sum of the volumes of a list of candles.
RECURSIVE sum_volume(_)
sum_volume(candles) ==
    IF candles = <<>> THEN 0 ELSE candles[1].volume + sum_volume(Tail(candles))

\* C21: a completed candle returned from sub-interval inputs has the open of
\* the first input of its bucket, the close of the last, the maximum of
\* their highs, the minimum of their lows and the sum of their volumes, the
\* inputs being those that fell in the bucket since it was opened.
C21_AggregatedValues ==
    [][(ret'.op = "update" /\ ret'.returned # NoCandle)
          => /\ constituents # <<>>
             /\ ret'.returned.timestamp = timeframe_start(constituents[1].timestamp, timeframe)
             /\ ret'.returned.open_price = constituents[1].open_price
             /\ ret'.returned.close_price = constituents[Len(constituents)].close_price
             /\ ret'.returned.high_price = max_high(constituents)
             /\ ret'.returned.low_price = min_low(constituents)
             /\ ret'.returned.volume = sum_volume(constituents)]_vars

\* A candle merged from a falling and a rising input was returned.
C21_Witness ==
    /\ ret.op = "update" /\ ret.returned # NoCandle
    /\ ret.returned.volume = 2
    /\ ret.returned.open_price = P(1) /\ ret.returned.close_price = P(1)
    /\ ret.returned.high_price = P(2) /\ ret.returned.low_price = P(-1)

\* C22 as stated: an already-complete candle of the builder's own interval
\* is always returned unchanged and leaves the builder with no current
\* candle, whatever the state before.
C22_PassThrough ==
    [][(/\ ret'.op = "update"
        /\ ret'.candle.is_complete /\ ret'.candle.timeframe = timeframe)
          => /\ ret'.returned = ret'.candle
             /\ current_candle' = NoCandle]_vars

\* C22: an already-complete candle of the builder's own symbol and own
\* interval is always returned unchanged and leaves the builder with no
\* current candle, whatever the state before.
C22_PassThroughOwnSymbol ==
    [][(/\ ret'.op = "update"
        /\ ret'.candle.symbol = BuilderSymbol
        /\ ret'.candle.is_complete /\ ret'.candle.timeframe = timeframe)
          => /\ ret'.returned = ret'.candle
             /\ current_candle' = NoCandle]_vars

\* A complete candle of the own symbol and interval was passed through a
\* builder that held a current candle.
C22_Witness ==
    /\ ret.op = "update" /\ ret.had_current
    /\ ret.candle.symbol = BuilderSymbol
    /\ ret.candle.is_complete /\ ret.candle.timeframe = timeframe
    /\ ret.returned = ret.candle
    /\ current_candle = NoCandle

\* C23: a sub-interval input of a newer bucket than the current candle makes
\* the same update return the previous candle as complete and open a new
\* current candle with exactly the input's open, high, low, close and volume.
C23_BoundaryInputKept ==
    [][(/\ ret'.op = "update"
        /\ current_candle # NoCandle
        /\ timeframe_start(ret'.candle.timestamp, timeframe) > current_candle.timestamp)
          => /\ ret'.returned = [current_candle EXCEPT !.is_complete = TRUE]
             /\ current_candle' # NoCandle
             /\ current_candle'.timestamp = timeframe_start(ret'.candle.timestamp, timeframe)
             /\ ~current_candle'.is_complete
             /\ current_candle'.open_price = ret'.candle.open_price
             /\ current_candle'.high_price = ret'.candle.high_price
             /\ current_candle'.low_price = ret'.candle.low_price
             /\ current_candle'.close_price = ret'.candle.close_price
             /\ current_candle'.volume = ret'.candle.volume]_vars

\* An input of a newer bucket returned a candle merged from two inputs and
\* opened the next one.
C23_Witness ==
    /\ ret.op = "update" /\ ret.returned # NoCandle
    /\ ret.returned.volume = 2
    /\ current_candle # NoCandle
    /\ current_candle.timestamp > ret.returned.timestamp
    /\ current_candle.volume = 1

\* C24: an update whose symbol is not the builder's, or whose interval is
\* larger than the builder's, returns no candle and leaves the current
\* candle as it was.
C24_BadInputDropped ==
    [][(/\ ret'.op = "update"
        /\ \/ ret'.candle.symbol # BuilderSymbol
           \/ ret'.candle.timeframe > timeframe)
          => /\ ret'.returned = NoCandle
             /\ current_candle' = current_candle]_vars

\* A complete candle of another symbol and of the builder's interval was
\* dropped by a builder that held a current candle.
C24_Witness ==
    /\ ret.op = "update" /\ ret.had_current
    /\ ret.candle.symbol = OtherSymbol
    /\ ret.candle.is_complete /\ ret.candle.timeframe = timeframe
    /\ ret.returned = NoCandle
    /\ current_candle # NoCandle

\* The update the DataFeed last ran was for the key it tracks.
TrackedUpdate(r) ==
    /\ r.op = "on_candle_update"
    /\ r.candle.symbol = BuilderSymbol
    /\ r.candle.timeframe = timeframe

\* Callback cb was called with level L in the update r.
CalledWithLevel(r, cb, L) ==
    \E j \in 1..Len(r.level_calls) :
        r.level_calls[j].callback = cb /\ r.level_calls[j].level = L

\* C25: for every update the DataFeed processes for a symbol with watched
\* levels, complete or not, if the close of the previous candle (the last
\* candle of the history before the update) and the close of the update
\* straddle a watched level L, every level callback registered for the symbol
\* is called with L.
C25_LevelCrossingDetection ==
    [][(TrackedUpdate(ret') /\ candle_history # <<>>) =>
        \A L \in price_levels :
            crossed(candle_history[Len(candle_history)].close_price,
                    ret'.candle.close_price, L) =>
                \A i \in 1..Len(level_callbacks) :
                    CalledWithLevel(ret', level_callbacks[i], L)]_vars

\* The calls of the update r made for level L.
CallsWithLevel(r, L) ==
    {j \in 1..Len(r.level_calls) : r.level_calls[j].level = L}

\* C26: when a candle or level callback raises during a dispatch, every
\* callback registered for the same event is still called (the candle
\* callbacks in their order, every level callback for the crossed level),
\* the complete candle stays the last of the history, and nothing propagates
\* out of _on_candle_update.
C26_CallbackFaultIsolation ==
    [][ret'.op = "on_candle_update" =>
        /\ ~ret'.propagated
        /\ (\E j \in 1..Len(ret'.candle_calls) : ret'.candle_calls[j].raised) =>
            /\ Len(ret'.candle_calls) = Len(candle_callbacks)
            /\ \A i \in 1..Len(candle_callbacks) :
                   /\ ret'.candle_calls[i].callback = candle_callbacks[i]
                   /\ ret'.candle_calls[i].candle = ret'.complete_candle
            /\ candle_history' = Append(candle_history, ret'.complete_candle)
        /\ \A j \in 1..Len(ret'.level_calls) :
               ret'.level_calls[j].raised =>
                   /\ Cardinality(CallsWithLevel(ret', ret'.level_calls[j].level))
                          = Len(level_callbacks')
                   /\ \A i \in 1..Len(level_callbacks') :
                          CalledWithLevel(ret', level_callbacks'[i],
                                          ret'.level_calls[j].level)]_vars

\* The first of two candle callbacks raised and the second was called.
C26_Witness ==
    /\ ret.op = "on_candle_update"
    /\ Len(ret.candle_calls) = 2
    /\ ret.candle_calls[1].raised
    /\ ~ret.candle_calls[2].raised
    /\ candle_history # <<>>
    /\ candle_history[Len(candle_history)] = ret.complete_candle

\* Both threads are past "Update candle builder" with a complete candle and
\* before the end of their pass over the candle callbacks.
BothInside == \A t \in Threads : pc[t] \in {"append", "notify"}

\* C27: two updates delivered by different threads for the same key are
\* never processed interleaved: the builder update, history append and
\* candle dispatch of one end before those of the other begin.
C27_PerKeySerialization == ~BothInside

\* C28: while the DataFeed dispatches a complete candle to the candle
\* callbacks, its callback lists and its set of watched levels do not
\* change: they are, when the last callback of the pass returns, what they
\* were when the pass started.
C28_NoRegistrationChangeDuringDispatch ==
    [][(ret'.op = "on_candle_update" /\ ret'.complete_candle # NoCandle) =>
        ret'.pass_end = ret'.pass_start]_vars

\* C29: once stop has returned (and before any start), none of the
\* callbacks of the strategy is registered with the DataFeed, and an update
\* calls none.
C29_StopUnregistersEverything ==
    ~is_running =>
        /\ candle_callbacks = <<>>
        /\ level_callbacks = <<>>
        /\ ret.op = "on_candle_update" =>
               ret.candle_calls = <<>> /\ ret.level_calls = <<>>

\* C30: the history of a key stays shorter than the MaxHistory complete
\* candles delivered over a run: a bound of the DataFeed, not the number of
\* candles delivered, limits it.
C30_BoundedHistory == Len(candle_history) < MaxHistory

\* C31: for every Level the constructor builds, plain or zoned, every price
\* and every threshold >= 0, is_broken_above and is_broken_below are never
\* both true.
C31_BreakPredicatesExclusive ==
    ret.op = "is_broken" => ~(ret.above /\ ret.below)

\* C32: the candle whose close triggers a breakout on a side is never itself
\* added to the retest candle list of that side: an on_candle call that
\* records a breakout leaves that list as it was.
C32_RetestAfterBreakoutCandle ==
    [][(variant \in {"orb", "pdh"} /\ ret'.op = "on_candle") =>
        \A side \in {"high", "low"} :
            (~breakouts[ret'.symbol][side] /\ breakouts'[ret'.symbol][side]) =>
                retests'[ret'.symbol][side].candles = retests[ret'.symbol][side].candles]_vars

\* C33: a trade is never closed by the stop / target check of the on_candle
\* call that created it, and that check does not attempt to close it.
C33_ExitAfterEntryCandle ==
    [][(ret'.op = "on_candle" /\ ret'.entered # 0) =>
        /\ trades'[ret'.entered].status # "CLOSED"
        /\ ~ret'.close_failed]_vars

C35_DailyCeilingConcurrent ==
    \A d \in Days : Len(trades_by_date[d]) <= max_trades_per_day

\* C36: each complete execution-timeframe candle the data feed delivers to a
\* started order-block strategy adds at most one entry to the retest candle
\* list of a level.
C36_CandleCountsOnce ==
    [][ret'.op = "dispatch" =>
        \A k \in DOMAIN retests'[ret'.symbol] :
            Len(retests'[ret'.symbol][k].candles)
                <= 1 + (IF k \in DOMAIN retests[ret'.symbol]
                        THEN Len(retests[ret'.symbol][k].candles) ELSE 0)]_vars

\* C37: every trade held in active_trades has status OPEN.
C37_ActiveTradesAreOpen ==
    \A symbol \in Symbols :
        active_trades[symbol] # 0 => trades[active_trades[symbol]].status = "OPEN"

\* The per-unit profit or loss of a closed trade: exit minus entry for a
\* long, entry minus exit for a short.
PerUnitPL(t) ==
    IF t.direction = "LONG" THEN t.exit_price - t.entry_price
    ELSE t.entry_price - t.exit_price

\* C38: after any sequence of create_trade and close_trade calls no trade is
\* both active and completed, completed_trades only grows, and every
\* completed trade is CLOSED with result WIN, LOSS or BREAKEVEN as its
\* per-unit profit or loss is positive, negative or zero.
C38_ActiveCompletedConsistent ==
    [][/\ \A symbol \in Symbols : \A i \in 1..Len(completed_trades') :
              completed_trades'[i] # active_trades'[symbol]
       /\ Len(completed_trades') >= Len(completed_trades)
       /\ SubSeq(completed_trades', 1, Len(completed_trades)) = completed_trades
       /\ \A i \in 1..Len(completed_trades') :
              LET t == trades'[completed_trades'[i]]
              IN  /\ t.status = "CLOSED"
                  /\ PerUnitPL(t) > 0 => t.result = "WIN"
                  /\ PerUnitPL(t) < 0 => t.result = "LOSS"
                  /\ PerUnitPL(t) = 0 => t.result = "BREAKEVEN"]_vars

\* A trade closed at its entry price is completed while another is active.
C38_Witness ==
    /\ \E symbol \in Symbols : active_trades[symbol] # 0
    /\ \E i \in 1..Len(completed_trades) :
           /\ trades[completed_trades[i]].result = "BREAKEVEN"
           /\ PerUnitPL(trades[completed_trades[i]]) = 0
    /\ \E i \in 1..Len(completed_trades) : trades[completed_trades[i]].result = "WIN"

\* The trades created with today's entry date, whatever their status.
TodaysTrades == {i \in 1..Len(trades) : trades[i].entry_time = today}

\* C39: the count can_place_trade compares with max_trades_per_day is the
\* number of all trades created with today's entry date, whatever their
\* status: the registry of today holds exactly those trades, so a
\* can_place_trade call, made directly or by a create_trade call that reaches
\* the check, is refused when that number has reached the ceiling - a REJECTED
\* trade counts.
C39_RejectedOrdersCount ==
    [][/\ (ret'.op = "create_trade" /\ ret'.checked) =>
            /\ Len(trades_by_date[today]) = Cardinality(TodaysTrades)
            /\ Cardinality(TodaysTrades) >= max_trades_per_day => ~ret'.can_place
       /\ ret'.op = "can_place_trade" =>
            /\ Len(trades_by_date[today]) = Cardinality(TodaysTrades)
            /\ Cardinality(TodaysTrades) >= max_trades_per_day
                   => ~ret'.result.allowed]_vars

\* With no equity set, a can_place_trade call was refused at the ceiling with
\* a REJECTED trade among the max_trades_per_day trades of the day.
C39_Witness ==
    /\ ret.op = "can_place_trade"
    /\ ~ret.result.allowed
    /\ current_equity = None
    /\ Cardinality(TodaysTrades) = max_trades_per_day
    /\ \E i \in TodaysTrades : trades[i].status = "REJECTED"

\* The input is a sub-interval candle of the builder's symbol that falls in
\* the bucket of the current candle cur.
InCurrentBucket(cur, candle) ==
    /\ candle.symbol = BuilderSymbol
    /\ candle.timeframe < timeframe
    /\ cur # NoCandle
    /\ cur.timestamp = timeframe_start(candle.timestamp, timeframe)

\* The input is a sub-interval candle of the builder's symbol that falls in
\* another bucket than the current candle cur.
InOtherBucket(cur, candle) ==
    /\ candle.symbol = BuilderSymbol
    /\ candle.timeframe < timeframe
    /\ cur # NoCandle
    /\ cur.timestamp # timeframe_start(candle.timestamp, timeframe)

\* C40: update returns a candle only for an input that falls in another
\* bucket than the current candle or for a complete candle of the builder's
\* own interval, which is passed through; an input merged into its own
\* current bucket returns no candle and leaves the merged candle current.
C40_CompletionOnlyOnBucketChange ==
    [][ret'.op = "update" =>
        /\ ret'.returned # NoCandle =>
              \/ InOtherBucket(current_candle, ret'.candle)
              \/ /\ ret'.candle.symbol = BuilderSymbol
                 /\ ret'.candle.is_complete
                 /\ ret'.candle.timeframe = timeframe
                 /\ ret'.returned = ret'.candle
        /\ InCurrentBucket(current_candle, ret'.candle) =>
              /\ ret'.returned = NoCandle
              /\ current_candle' # NoCandle
              /\ current_candle'.timestamp = current_candle.timestamp
              /\ current_candle'.volume = current_candle.volume + ret'.candle.volume]_vars

\* An input was merged into the current bucket without a candle returned,
\* after an earlier update had returned one.
C40_Witness ==
    /\ ret.op = "update"
    /\ ret.returned = NoCandle
    /\ ret.had_current
    /\ InCurrentBucket(current_candle, ret.candle)
    /\ current_candle.volume = 2
    /\ emitted # <<>>

====
